---- MODULE Spec2Model ----
(***************************************************************************)
(* The inventory and procurement core of printing_publisher_system:        *)
(* InventoryService (stock engine), PrintingTaskService (task workflow)    *)
(* and PurchaseService (purchase workflow) over the MySQL store reached    *)
(* through the DAOs of src/database/daos.py.                               *)
(*                                                                         *)
(* Quantities are floats in the source.  The model counts them in tenths   *)
(* of a unit, so that the requirement factors 0.5 and 0.1 are the integers *)
(* 5 and 1.  Statuses are written in English: 待开始 = pending, 进行中 =   *)
(* in_progress, 已完成 = completed, 已取消 = cancelled; 待采购 =           *)
(* to_purchase, 已下单 = ordered, 已收货 = received; 入库 = in, 出库 = out.*)
(*                                                                         *)
(* Every service call runs on a worker.  A step of a worker is one round   *)
(* trip to the store (or the start of a transaction with its first         *)
(* statement); the store is the only thing workers share.  A statement of  *)
(* an open transaction is buffered in tx[w] and reaches the committed      *)
(* tables at commit; an UPDATE holds the row's lock until the transaction  *)
(* ends.  Every round trip may raise (connection lost, lock wait timeout). *)
(***************************************************************************)
EXTENDS Integers, Sequences, FiniteSets, TLC

\* ---------------------------------------------------------------- bounds
MaxLog == 4            \* calls start only while the stock log can take their entries
InitPaper == 10        \* 库存数量 of material 1 at start (tenths)
InitInk == 2           \* 库存数量 of material 2 at start (tenths)
TaskQuantity == 1      \* 印刷数量 of the task that exists at start
PurchaseQuantity == 5  \* 采购数量 of the purchase that exists at start (tenths)
InitPrice == 500       \* 供应商提供的材料单价 of every link at start (cents)
MaxPurchases == 5      \* rows 采购清单表 can take
PurMaxRows == 4        \* create_purchase is called while 采购清单表 holds fewer rows

\* ------------------------------------------------------ program constants
PaperFactor == 5       \* 0.5 per copy, in tenths
InkFactor == 1         \* 0.1 per copy, in tenths

Materials == {1, 2}          \* rows of 材料表
MaterialIds == {1, 2, 3}     \* ids a caller may pass; 3 has no row
Workers == {1, 2}
Manual == <<"manual", 0>>    \* 关联的业务记录标识 of a hand-made change
TaskRef(t) == <<"task", t>>          \* f"task:{task_id}"
PurchaseRef(p) == <<"purchase", p>>  \* f"purchase:{purchase_id}"

TaskIds == {1, 2}            \* 印刷任务id a caller may pass
PurchaseIds == {1, 2}        \* 采购记录id a caller may pass
PurchaseRows == 1..MaxPurchases  \* 采购记录id of the rows 采购清单表 may hold
Links == {1, 2, 3}           \* rows of 材料供应商关联表
Suppliers == {1, 2}          \* rows of 供应商表

VARIABLES
    qty,         \* 材料表.库存数量, committed
    log,         \* 库存日志表, committed, in commit order
    taskStatus,  \* 印刷任务表.任务状态 ("absent": no row)
    taskDate,    \* 印刷任务表.实际完成日期
    purStatus,   \* 采购清单表.采购状态 ("absent": no row)
    purDate,     \* 采购清单表.材料收货日期
    taskQty,     \* 印刷任务表.印刷数量
    taskEmp,     \* 印刷任务表.员工id
    purQty,      \* 采购清单表.采购数量
    purLink,     \* 采购清单表.材料供应商关联id (0: none)
    purCost,     \* 采购清单表.总成本 (cents)
    purTask,     \* 采购清单表.印刷任务id
    linkPrice,   \* 材料供应商关联表.供应商提供的材料单价 (cents)
    supStatus,   \* 供应商表.合作状态
    pc,          \* where each worker is in its call
    op,          \* the call each worker runs, with its arguments
    loc,         \* the call's local variables
    tx,          \* the worker's open transaction: buffered writes and log rows
    res,         \* the result the call returned
    pre          \* the committed tables as they were when the call started

fixed == <<taskQty, taskEmp, purQty, purLink, purCost, purTask, linkPrice, supStatus>>
store == <<qty, log, taskStatus, taskDate, purStatus, purDate, fixed>>
vars == <<qty, log, taskStatus, taskDate, purStatus, purDate, fixed, pc, op, loc, tx, res, pre>>

\* ------------------------------------------------------------- base_service
\* data: the id the response carries in its data (0: none); items: the
\* requirement items it carries in its data.
_create_error_response(message) ==
    [success |-> FALSE, message |-> message, shortages |-> <<>>, items |-> <<>>, data |-> 0]

_create_success_response(message) ==
    [success |-> TRUE, message |-> message, shortages |-> <<>>, items |-> <<>>, data |-> 0]

_create_success_response_data(data, message) ==
    [success |-> TRUE, message |-> message, shortages |-> <<>>, items |-> <<>>, data |-> data]

\* An exception that leaves the call uncaught: the caller gets no response.
Raised(message) ==
    [success |-> FALSE, message |-> <<"raised">> \o message, shortages |-> <<>>, items |-> <<>>, data |-> 0]

NoRes == [success |-> FALSE, message |-> <<>>, shortages |-> <<>>, items |-> <<>>, data |-> 0]

\* ----------------------------------------------------------------- records
\* task_data of submit_printing_task; none: the required fields that are
\* absent or None.
NoTaskData == [employee_id |-> 0, book_id |-> 0, due_date |-> "", quantity |-> 0,
               none |-> {}]

NoOp == [name |-> "none", material_id |-> 0, delta |-> 0, change_type |-> "",
         reference |-> Manual, operator_id |-> 0, task_id |-> 0, new_status |-> "",
         date |-> "none", purchase_id |-> 0, changes |-> <<>>,
         link_id |-> 0, quantity |-> 0, task_data |-> NoTaskData, candidates |-> {}]

NoLoc == [changes |-> <<>>, idx |-> 0, current_qty |-> 0, new_qty |-> 0, items |-> <<>>,
          material_id |-> 0, quantity |-> 0, shortages |-> <<>>, total_cost |-> 0,
          task_id |-> 0, missing_materials |-> <<>>]

EmptyFn == [m \in {} |-> 0]

\* tasks, purchases: the rows INSERTed into 印刷任务表 and 采购清单表, not committed yet.
NoTx == [open |-> FALSE, writes |-> EmptyFn, rows |-> <<>>, snap |-> EmptyFn,
         tasks |-> <<>>, purchases |-> <<>>]

NoPre == [qty |-> [m \in Materials |-> 0], log |-> <<>>,
          taskStatus |-> [t \in TaskIds |-> "absent"], taskDate |-> [t \in TaskIds |-> "none"],
          purStatus |-> [p \in PurchaseRows |-> "absent"],
          purDate |-> [p \in PurchaseRows |-> "none"],
          taskQty |-> [t \in TaskIds |-> 0], taskEmp |-> [t \in TaskIds |-> 0],
          purQty |-> [p \in PurchaseRows |-> 0], purLink |-> [p \in PurchaseRows |-> 0],
          purCost |-> [p \in PurchaseRows |-> 0], purTask |-> [p \in PurchaseRows |-> 0]]

Snapshot == [qty |-> qty, log |-> log, taskStatus |-> taskStatus, taskDate |-> taskDate,
             purStatus |-> purStatus, purDate |-> purDate,
             taskQty |-> taskQty, taskEmp |-> taskEmp, purQty |-> purQty,
             purLink |-> purLink, purCost |-> purCost, purTask |-> purTask]

Change(m, d, kind, ref, oper) ==
    [material_id |-> m, delta |-> d, change_type |-> kind, reference |-> ref,
     operator_id |-> oper]

\* change_type or ('入库' if delta >= 0 else '出库')
DefaultKind(d) == IF d >= 0 THEN "in" ELSE "out"

\* ------------------------------------------------------------------- store
\* A row lock of 材料表 is held by the transaction that has updated the row.
LockedByOther(w, m) == \E v \in Workers \ {w} : m \in DOMAIN tx[v].writes

\* A read that never sees what the transaction itself wrote.
TxReadValues_committed(w, m) == {qty[m]}

\* What a SELECT inside w's transaction may return for material m: its own
\* write, else the committed value as of the transaction's read view
\* (REPEATABLE READ, the server's default) or as of now (READ COMMITTED); the
\* code sets no isolation level.
TxReadValues(w, m) ==
    IF m \in DOMAIN tx[w].writes THEN {tx[w].writes[m]}
    ELSE IF m \in DOMAIN tx[w].snap THEN {tx[w].snap[m], qty[m]}
    ELSE {qty[m]}

WithWrite(t, m, v) ==
    [t EXCEPT !.writes = [x \in DOMAIN t.writes \cup {m} |->
                             IF x = m THEN v ELSE t.writes[x]]]

WithRow(t, row) == [t EXCEPT !.rows = Append(t.rows, row)]

\* A commit that loses the log rows of the transaction.
Commit_unlogged(t) ==
    [qty |-> [m \in Materials |-> IF m \in DOMAIN t.writes THEN t.writes[m] ELSE qty[m]],
     log |-> log]

\* A commit that writes its log rows over the log.
Commit_rewritten(t) ==
    [qty |-> [m \in Materials |-> IF m \in DOMAIN t.writes THEN t.writes[m] ELSE qty[m]],
     log |-> t.rows]

\* conn.commit(): the buffered writes and log rows become the committed ones.
Commit(t) ==
    [qty |-> [m \in Materials |-> IF m \in DOMAIN t.writes THEN t.writes[m] ELSE qty[m]],
     log |-> log \o t.rows]

\* A rollback that keeps what the transaction wrote.
Rollback_partial(t) == Commit(t)

\* conn.rollback(): the buffered writes and log rows are dropped.
Rollback(t) == [qty |-> qty, log |-> log]

\* cursor.rowcount > 0 of an UPDATE by primary key: the row exists and, when
\* the client counts changed rows instead of matched rows, the value differs.
UpdateRowcounts(exists, changed) ==
    IF ~exists THEN {FALSE} ELSE IF changed THEN {TRUE} ELSE {TRUE, FALSE}

\* -------------------------------------------------- return to the caller
\* The stock engine call of worker w ends with result r: a direct call returns
\* r to its caller; a call made by a task or purchase operation resumes it.
AfterStock(name) ==
    CASE name = "complete_task_manual" -> "ctm_status"
      [] name = "update_task_status" -> "uts_write"
      [] name = "receive_purchase" -> "rp_status"
      [] OTHER -> "ret"

\* A caller that never looks at the result of the stock call.
StockDone_unchecked(w, r) ==
    IF op[w].name \in {"update_stock_level", "batch_update_stock"}
    THEN /\ pc' = [pc EXCEPT ![w] = "ret"]
         /\ res' = [res EXCEPT ![w] = r]
    ELSE /\ pc' = [pc EXCEPT ![w] = AfterStock(op[w].name)]
         /\ res' = res

StockDone(w, r) ==
    IF op[w].name \in {"update_stock_level", "batch_update_stock"}
    THEN /\ pc' = [pc EXCEPT ![w] = "ret"]
         /\ res' = [res EXCEPT ![w] = r]
    ELSE IF ~r.success
    THEN /\ pc' = [pc EXCEPT ![w] = "ret"]
         /\ res' = [res EXCEPT ![w] =
                IF op[w].name = "receive_purchase"
                THEN _create_error_response(<<"receive_stock_in_failed">> \o r.message)
                ELSE _create_error_response(r.message)]
    ELSE /\ pc' = [pc EXCEPT ![w] = AfterStock(op[w].name)]
         /\ res' = res

\* Log rows the call o may add to 库存日志表.
Need(o) ==
    CASE o.name = "update_stock_level" -> 1
      [] o.name = "batch_update_stock" -> Len(o.changes)
      [] o.name = "complete_task_manual" -> Cardinality(Materials)
      [] o.name = "update_task_status" ->
            IF o.new_status = "completed" THEN Cardinality(Materials) ELSE 0
      [] o.name = "receive_purchase" -> 1
      [] OTHER -> 0

RECURSIVE ReservedBy(_)
ReservedBy(S) ==
    IF S = {} THEN 0
    ELSE LET w == CHOOSE x \in S : TRUE
         IN (IF pc[w] \in {"idle", "ret"} THEN 0 ELSE Need(op[w])) + ReservedBy(S \ {w})

\* Worker w is at `label`.  A returned result is taken by its caller before any
\* worker's next step: Ack touches nothing a worker shares, so taking it first
\* reaches the same stores.
At(w, label) ==
    /\ pc[w] = label
    /\ \A v \in Workers : pc[v] # "ret"

\* A caller calls o on the idle worker w (a call starts only while the log
\* can take the rows it and the calls in progress may add).
Call(w, o, first) ==
    /\ At(w, "idle")
    /\ Len(log) + ReservedBy(Workers) + Need(o) <= MaxLog
    /\ op' = [op EXCEPT ![w] = o]
    /\ pre' = [pre EXCEPT ![w] = Snapshot]
    /\ pc' = [pc EXCEPT ![w] = first]
    /\ UNCHANGED <<store, loc, tx, res>>

\* The call of worker w returns r.
Return(w, r) ==
    /\ pc' = [pc EXCEPT ![w] = "ret"]
    /\ res' = [res EXCEPT ![w] = r]

\* The caller takes the result; the worker is free again.
Ack(w) ==
    /\ pc[w] = "ret"
    /\ pc' = [pc EXCEPT ![w] = "idle"]
    /\ op' = [op EXCEPT ![w] = NoOp]
    /\ loc' = [loc EXCEPT ![w] = NoLoc]
    /\ res' = [res EXCEPT ![w] = NoRes]
    /\ pre' = [pre EXCEPT ![w] = NoPre]
    /\ UNCHANGED <<store, tx>>

\* ------------------------------------------- InventoryService.update_stock_level
\* new_quantity = current_qty + delta; if new_quantity < 0: "库存数量不能为负"
\* A check of the quantity read instead of the quantity to be written.
NegativeQuantity_stale(current_qty, delta) == current_qty < 0

NegativeQuantity(current_qty, delta) == current_qty + delta < 0

update_stock_level(w, m, d, kind, ref, oper) ==
    /\ Call(w, [NoOp EXCEPT !.name = "update_stock_level", !.material_id = m, !.delta = d,
                            !.change_type = kind, !.reference = ref, !.operator_id = oper],
            "usl_read")

\* material_dao.get_by_id on a connection of its own, then the check of the
\* new quantity, before any transaction is open.
usl_read(w) ==
    /\ At(w, "usl_read")
    /\ LET m == op[w].material_id
           d == op[w].delta
       IN \/ /\ StockDone(w, _create_error_response(<<"update_stock_level_failed", "store">>))
             /\ UNCHANGED loc
          \/ /\ m \notin Materials
             /\ StockDone(w, _create_error_response(<<"material_missing">>))
             /\ UNCHANGED loc
          \/ /\ m \in Materials
             /\ NegativeQuantity(qty[m], d)
             /\ StockDone(w, _create_error_response(<<"negative_stock">>))
             /\ UNCHANGED loc
          \/ /\ m \in Materials
             /\ ~NegativeQuantity(qty[m], d)
             /\ pc' = [pc EXCEPT ![w] = "usl_write"]
             /\ loc' = [loc EXCEPT ![w] = [@ EXCEPT !.material_id = m,
                                                    !.current_qty = qty[m],
                                                    !.new_qty = qty[m] + d]]
             /\ UNCHANGED res
    /\ UNCHANGED <<store, op, tx, pre>>

\* get_connection, start_transaction, update_with_connection (the UPDATE waits
\* for the row's lock) and create_with_connection of the log row.
usl_write(w) ==
    /\ At(w, "usl_write")
    /\ LET m == loc[w].material_id
           row == Change(m, op[w].delta, op[w].change_type, op[w].reference,
                         op[w].operator_id)
       IN \/ /\ StockDone(w, _create_error_response(<<"update_stock_level_failed", "store">>))
             /\ UNCHANGED tx
             /\ qty' = Rollback(tx[w]).qty
             /\ log' = Rollback(tx[w]).log
          \/ /\ ~LockedByOther(w, m)
             /\ UNCHANGED <<qty, log>>
             /\ \E ok \in UpdateRowcounts(TRUE, qty[m] # loc[w].new_qty) :
                  IF ok
                  THEN /\ tx' = [tx EXCEPT ![w] =
                                   WithRow(WithWrite([@ EXCEPT !.open = TRUE], m,
                                                     loc[w].new_qty), row)]
                       /\ pc' = [pc EXCEPT ![w] = "usl_commit"]
                       /\ UNCHANGED res
                  ELSE /\ StockDone(w, _create_error_response(
                                <<"update_stock_level_failed", "update">>))
                       /\ UNCHANGED tx
    /\ UNCHANGED <<taskStatus, taskDate, purStatus, purDate, fixed, op, loc, pre>>

\* conn.commit(), or conn.rollback() when it raises.
usl_commit(w) ==
    /\ At(w, "usl_commit")
    /\ \/ /\ StockDone(w, _create_error_response(<<"update_stock_level_failed", "store">>))
          /\ qty' = Rollback(tx[w]).qty
          /\ log' = Rollback(tx[w]).log
       \/ /\ qty' = Commit(tx[w]).qty
          /\ log' = Commit(tx[w]).log
          /\ StockDone(w, _create_success_response(<<"ok">>))
    /\ tx' = [tx EXCEPT ![w] = NoTx]
    /\ UNCHANGED <<taskStatus, taskDate, purStatus, purDate, fixed, op, loc, pre>>

\* ------------------------------------------- InventoryService.batch_update_stock
\* new_qty = current_qty + delta; if new_qty < 0: raise "库存不足"
\* A check that takes the delta with the wrong sign.
InsufficientStock_signed(current_qty, delta) == current_qty - delta < 0

InsufficientStock(current_qty, delta) == current_qty + delta < 0

batch_update_stock(w, changes) ==
    /\ Call(w, [NoOp EXCEPT !.name = "batch_update_stock", !.changes = changes],
            "batch_enter")

\* if not changes: success without a connection; else the loop starts.
batch_enter(w) ==
    /\ At(w, "batch_enter")
    /\ IF op[w].changes = <<>>
       THEN /\ StockDone(w, _create_success_response(<<"ok">>))
            /\ UNCHANGED loc
       ELSE /\ pc' = [pc EXCEPT ![w] = "batch_select"]
            /\ loc' = [loc EXCEPT ![w] = [@ EXCEPT !.changes = op[w].changes, !.idx = 1]]
            /\ UNCHANGED res
    /\ UNCHANGED <<store, op, tx, pre>>

\* One turn of the loop up to the check: (get_connection and start_transaction
\* on the first turn,) SELECT 库存数量 on the transaction's connection,
\* "not row" and "new_qty < 0".  Every raise is caught, rolled back and
\* returned as an error response.
batch_select(w) ==
    /\ At(w, "batch_select")
    /\ LET ch == loc[w].changes[loc[w].idx]
           m == ch.material_id
       IN \/ /\ StockDone(w, _create_error_response(<<"batch_failed", "store">>))
             /\ tx' = [tx EXCEPT ![w] = NoTx]
             /\ qty' = Rollback(tx[w]).qty
             /\ log' = Rollback(tx[w]).log
             /\ UNCHANGED loc
          \/ /\ m \notin Materials
             /\ StockDone(w, _create_error_response(<<"batch_failed", "material_missing">>))
             /\ tx' = [tx EXCEPT ![w] = NoTx]
             /\ qty' = Rollback(tx[w]).qty
             /\ log' = Rollback(tx[w]).log
             /\ UNCHANGED loc
          \/ /\ m \in Materials
             /\ \E cur \in TxReadValues(w, m) :
                  IF InsufficientStock(cur, ch.delta)
                  THEN /\ StockDone(w, _create_error_response(
                                <<"batch_failed", "insufficient">>))
                       /\ tx' = [tx EXCEPT ![w] = NoTx]
                       /\ qty' = Rollback(tx[w]).qty
                       /\ log' = Rollback(tx[w]).log
                       /\ UNCHANGED loc
                  ELSE /\ pc' = [pc EXCEPT ![w] = "batch_write"]
                       /\ loc' = [loc EXCEPT ![w] = [@ EXCEPT !.material_id = m,
                                                              !.current_qty = cur,
                                                              !.new_qty = cur + ch.delta]]
                       /\ tx' = [tx EXCEPT ![w] =
                                   IF @.open THEN @
                                   ELSE [@ EXCEPT !.open = TRUE, !.snap = qty]]
                       /\ UNCHANGED <<res, qty, log>>
    /\ UNCHANGED <<taskStatus, taskDate, purStatus, purDate, fixed, op, pre>>

\* The rest of the turn: update_with_connection (the UPDATE waits for the
\* row's lock), create_with_connection of the log row, results.append.
batch_write(w) ==
    /\ At(w, "batch_write")
    /\ LET ch == loc[w].changes[loc[w].idx]
           m == loc[w].material_id
           rowNow == IF m \in DOMAIN tx[w].writes THEN tx[w].writes[m] ELSE qty[m]
           row == Change(m, ch.delta, ch.change_type, ch.reference, ch.operator_id)
       IN \/ /\ StockDone(w, _create_error_response(<<"batch_failed", "store">>))
             /\ tx' = [tx EXCEPT ![w] = NoTx]
             /\ qty' = Rollback(tx[w]).qty
             /\ log' = Rollback(tx[w]).log
             /\ UNCHANGED loc
          \/ /\ ~LockedByOther(w, m)
             /\ \E ok \in UpdateRowcounts(TRUE, rowNow # loc[w].new_qty) :
                  IF ok
                  THEN /\ tx' = [tx EXCEPT ![w] = WithRow(WithWrite(@, m, loc[w].new_qty), row)]
                       /\ IF loc[w].idx < Len(loc[w].changes)
                          THEN /\ loc' = [loc EXCEPT ![w] = [@ EXCEPT !.idx = @ + 1]]
                               /\ pc' = [pc EXCEPT ![w] = "batch_select"]
                          ELSE /\ pc' = [pc EXCEPT ![w] = "batch_commit"]
                               /\ UNCHANGED loc
                       /\ UNCHANGED <<res, qty, log>>
                  ELSE /\ StockDone(w, _create_error_response(<<"batch_failed", "update">>))
                       /\ tx' = [tx EXCEPT ![w] = NoTx]
                       /\ qty' = Rollback(tx[w]).qty
                       /\ log' = Rollback(tx[w]).log
                       /\ UNCHANGED loc
    /\ UNCHANGED <<taskStatus, taskDate, purStatus, purDate, fixed, op, pre>>

\* conn.commit(), or conn.rollback() when it raises.
batch_commit(w) ==
    /\ At(w, "batch_commit")
    /\ \/ /\ StockDone(w, _create_error_response(<<"batch_failed", "store">>))
          /\ qty' = Rollback(tx[w]).qty
          /\ log' = Rollback(tx[w]).log
       \/ /\ qty' = Commit(tx[w]).qty
          /\ log' = Commit(tx[w]).log
          /\ StockDone(w, _create_success_response(<<"ok">>))
    /\ tx' = [tx EXCEPT ![w] = NoTx]
    /\ UNCHANGED <<taskStatus, taskDate, purStatus, purDate, fixed, op, loc, pre>>

\* ------------------------------ PrintingTaskService._calculate_material_requirements
\* {1: 印刷数量 * 0.5, 2: 印刷数量 * 0.1}, in tenths; the dict is walked in this order.
RequiredOrder == <<1, 2>>

\* A calculation that takes the paper factor for the ink too.
_calculate_material_requirements_paper(quantity) ==
    [m \in {1, 2} |-> quantity * PaperFactor]

_calculate_material_requirements(quantity) ==
    [m \in {1, 2} |-> IF m = 1 THEN quantity * PaperFactor ELSE quantity * InkFactor]

\* The changes list both completion paths build: one '出库' change of -required
\* per required material, a zero delta skipped.
\* Stock-out changes that carry the required amount unsigned.
StockOutChanges_unsigned(required, ref, oper) ==
    LET nz == SelectSeq(RequiredOrder, LAMBDA m : required[m] # 0)
    IN IF nz = <<>> THEN <<>>
       ELSE [i \in 1..Len(nz) |-> Change(nz[i], required[nz[i]], "out", ref, oper)]

StockOutChanges(required, ref, oper) ==
    LET nz == SelectSeq(RequiredOrder, LAMBDA m : required[m] # 0)
    IN IF nz = <<>> THEN <<>>
       ELSE [i \in 1..Len(nz) |-> Change(nz[i], 0 - required[nz[i]], "out", ref, oper)]

\* float(mat.get('库存数量') or 0) of "get_by_id(mid) or {}"
StockOf(m) == IF m \in Materials THEN qty[m] ELSE 0

\* A shortage entry whose shortfall is available - required.
ShortageEntry_swapped(mid, rqty, stock) ==
    [material_id |-> mid, required_qty |-> rqty, current_stock |-> stock,
     shortage |-> stock - rqty]

\* The entry complete_task_manual appends for a material with stock < rqty.
ShortageEntry(mid, rqty, stock) ==
    [material_id |-> mid, required_qty |-> rqty, current_stock |-> stock,
     shortage |-> rqty - stock]

\* ----------------------------------------- PrintingTaskService.get_task_requirements
\* The item of one material: shortage = max(0.0, float(rqty) - stock)
RequirementItem(mid, rqty, stock) ==
    [material_id |-> mid, required_qty |-> rqty, current_stock |-> stock,
     shortage |-> IF rqty - stock > 0 THEN rqty - stock ELSE 0]

get_task_requirements(w, t) ==
    /\ Call(w, [NoOp EXCEPT !.name = "get_task_requirements", !.task_id = t], "gtr_task")

\* task_dao.get_by_id(task_id); qty = int(task.get('印刷数量') or 0)
gtr_task(w) ==
    /\ At(w, "gtr_task")
    /\ LET t == op[w].task_id
       IN \/ /\ Return(w, _create_error_response(<<"requirements_failed", "store">>))
             /\ UNCHANGED loc
          \/ IF t \notin TaskIds \/ taskStatus[t] = "absent"
             THEN /\ Return(w, _create_error_response(<<"task_missing">>))
                  /\ UNCHANGED loc
             ELSE /\ pc' = [pc EXCEPT ![w] = "gtr_material"]
                  /\ loc' = [loc EXCEPT ![w] = [@ EXCEPT !.quantity = taskQty[t], !.idx = 1]]
                  /\ UNCHANGED res
    /\ UNCHANGED <<store, op, tx, pre>>

\* One turn of the loop over the requirements (one material_dao.get_by_id);
\* after the last turn the items are returned.
gtr_material(w) ==
    /\ At(w, "gtr_material")
    /\ LET required == _calculate_material_requirements(loc[w].quantity)
           mid == RequiredOrder[loc[w].idx]
           items == Append(loc[w].items, RequirementItem(mid, required[mid], StockOf(mid)))
       IN \/ /\ Return(w, _create_error_response(<<"requirements_failed", "store">>))
             /\ UNCHANGED loc
          \/ /\ loc[w].idx < Len(RequiredOrder)
             /\ loc' = [loc EXCEPT ![w] = [@ EXCEPT !.idx = @ + 1, !.items = items]]
             /\ UNCHANGED <<pc, res>>
          \/ /\ loc[w].idx = Len(RequiredOrder)
             /\ Return(w, [_create_success_response(<<"requirements">>) EXCEPT
                               !.items = items])
             /\ UNCHANGED loc
    /\ UNCHANGED <<store, op, tx, pre>>

\* ------------------------------------------ PrintingTaskService.complete_task_manual
complete_task_manual(w, t, oper, date) ==
    /\ Call(w, [NoOp EXCEPT !.name = "complete_task_manual", !.task_id = t,
                            !.operator_id = oper, !.date = date], "ctm_read")

\* task_dao.get_by_id and the guards on the task and the operator.
ctm_read(w) ==
    /\ At(w, "ctm_read")
    /\ LET t == op[w].task_id
       IN \/ /\ Return(w, _create_error_response(<<"complete_failed", "store">>))
             /\ UNCHANGED loc
          \/ /\ taskStatus[t] = "absent"
             /\ Return(w, _create_error_response(<<"task_missing">>))
             /\ UNCHANGED loc
          \/ /\ taskStatus[t] = "cancelled"
             /\ Return(w, _create_error_response(<<"task_cancelled">>))
             /\ UNCHANGED loc
          \/ /\ taskStatus[t] = "completed"
             /\ Return(w, _create_error_response(<<"task_already_completed">>))
             /\ UNCHANGED loc
          \/ /\ taskStatus[t] \in {"pending", "in_progress"}
             /\ op[w].operator_id = 0
             /\ Return(w, _create_error_response(<<"no_operator">>))
             /\ UNCHANGED loc
          \/ /\ taskStatus[t] \in {"pending", "in_progress"}
             /\ op[w].operator_id # 0
             /\ pc' = [pc EXCEPT ![w] = "ctm_check"]
             /\ loc' = [loc EXCEPT ![w] = [@ EXCEPT !.quantity = taskQty[t], !.idx = 1]]
             /\ UNCHANGED res
    /\ UNCHANGED <<store, op, tx, pre>>

\* One turn of the shortage loop (one material_dao.get_by_id); after the last
\* turn the shortage list is returned, or the stock-out batch is started.
ctm_check(w) ==
    /\ At(w, "ctm_check")
    /\ LET required == _calculate_material_requirements(loc[w].quantity)
           mid == RequiredOrder[loc[w].idx]
           stock == StockOf(mid)
           shortages ==
               IF stock < required[mid]
               THEN Append(loc[w].shortages, ShortageEntry(mid, required[mid], stock))
               ELSE loc[w].shortages
           changes == StockOutChanges(required, TaskRef(op[w].task_id), op[w].operator_id)
       IN \/ /\ Return(w, _create_error_response(<<"complete_failed", "store">>))
             /\ UNCHANGED loc
          \/ /\ loc[w].idx < Len(RequiredOrder)
             /\ loc' = [loc EXCEPT ![w] = [@ EXCEPT !.idx = @ + 1, !.shortages = shortages]]
             /\ UNCHANGED <<pc, res>>
          \/ /\ loc[w].idx = Len(RequiredOrder)
             /\ shortages # <<>>
             /\ Return(w, [success |-> FALSE, message |-> <<"shortage">>,
                           shortages |-> shortages, items |-> <<>>, data |-> 0])
             /\ UNCHANGED loc
          \/ /\ loc[w].idx = Len(RequiredOrder)
             /\ shortages = <<>>
             /\ pc' = [pc EXCEPT ![w] = IF changes = <<>> THEN "ctm_status" ELSE "batch_select"]
             /\ loc' = [loc EXCEPT ![w] = [@ EXCEPT !.changes = changes, !.idx = 1]]
             /\ UNCHANGED res
    /\ UNCHANGED <<store, op, tx, pre>>

\* What task_dao.update(task_id, {'任务状态': status[, '实际完成日期': date]})
\* changes in the row.
TaskRowChanges(t, status, date) ==
    taskStatus[t] # status \/ (date # "none" /\ taskDate[t] # date)

\* task_dao.update(task_id, {'任务状态': '已完成'[, '实际完成日期': completed_date]})
ctm_status(w) ==
    /\ At(w, "ctm_status")
    /\ LET t == op[w].task_id
           date == op[w].date
       IN \/ /\ Return(w, _create_error_response(<<"complete_failed", "store">>))
             /\ UNCHANGED <<taskStatus, taskDate>>
          \/ \E ok \in UpdateRowcounts(taskStatus[t] # "absent",
                                       TaskRowChanges(t, "completed", date)) :
               IF ok
               THEN /\ taskStatus' = [taskStatus EXCEPT ![t] = "completed"]
                    /\ taskDate' = IF date # "none" THEN [taskDate EXCEPT ![t] = date]
                                   ELSE taskDate
                    /\ Return(w, _create_success_response(<<"task_completed">>))
               ELSE /\ Return(w, _create_error_response(<<"task_status_update_failed">>))
                    /\ UNCHANGED <<taskStatus, taskDate>>
    /\ UNCHANGED <<qty, log, purStatus, purDate, fixed, op, loc, tx, pre>>

\* -------------------------------------------- PrintingTaskService.update_task_status
valid_statuses == {"pending", "in_progress", "completed", "cancelled"}

update_task_status(w, t, new_status, date, oper) ==
    /\ (new_status # "completed" => (date = "none" /\ oper = 0))
    /\ Call(w, [NoOp EXCEPT !.name = "update_task_status", !.task_id = t,
                            !.new_status = new_status, !.date = date, !.operator_id = oper],
            "uts_enter")

\* The check of the status value, and the branch on '已完成'.
uts_enter(w) ==
    /\ At(w, "uts_enter")
    /\ IF op[w].new_status \notin valid_statuses
       THEN Return(w, _create_error_response(<<"invalid_status">>))
       ELSE /\ pc' = [pc EXCEPT ![w] = IF op[w].new_status = "completed"
                                      THEN "uts_read" ELSE "uts_write"]
            /\ UNCHANGED res
    /\ UNCHANGED <<store, op, loc, tx, pre>>

\* new_status == '已完成': task_dao.get_by_id, the requirements, the operator
\* (operator_id, else the task's 员工id) and the changes list.
uts_read(w) ==
    /\ At(w, "uts_read")
    /\ LET t == op[w].task_id
           op_id == IF op[w].operator_id # 0 THEN op[w].operator_id ELSE taskEmp[t]
           changes == StockOutChanges(_calculate_material_requirements(taskQty[t]),
                                      TaskRef(t), op_id)
       IN \/ /\ Return(w, _create_error_response(<<"update_task_status_failed", "store">>))
             /\ UNCHANGED loc
          \/ /\ taskStatus[t] = "absent"
             /\ Return(w, _create_error_response(<<"task_missing">>))
             /\ UNCHANGED loc
          \/ /\ taskStatus[t] # "absent"
             /\ op_id = 0
             /\ Return(w, _create_error_response(<<"no_operator">>))
             /\ UNCHANGED loc
          \/ /\ taskStatus[t] # "absent"
             /\ op_id # 0
             /\ pc' = [pc EXCEPT ![w] = IF changes = <<>> THEN "uts_write" ELSE "batch_select"]
             /\ loc' = [loc EXCEPT ![w] = [@ EXCEPT !.quantity = taskQty[t],
                                                    !.changes = changes, !.idx = 1]]
             /\ UNCHANGED res
    /\ UNCHANGED <<store, op, tx, pre>>


\* An update of the task row that cancels the task's open purchase orders
\* with it.
PurchasesAfterTaskUpdate_cascade(t, new_status) ==
    [p \in PurchaseRows |->
        IF new_status = "cancelled" /\ purTask[p] = t /\ purStatus[p] = "to_purchase"
        THEN "cancelled" ELSE purStatus[p]]

\* 采购清单表 after UPDATE 印刷任务表 SET 任务状态 = new_status WHERE 印刷任务id = t:
\* the statement names one table, no code follows it.
PurchasesAfterTaskUpdate(t, new_status) == purStatus

\* task_dao.update(task_id, {'任务状态': new_status[, '实际完成日期': date]})
uts_write(w) ==
    /\ At(w, "uts_write")
    /\ LET t == op[w].task_id
           new_status == op[w].new_status
           date == IF new_status = "completed" THEN op[w].date ELSE "none"
       IN \/ /\ Return(w, _create_error_response(<<"update_task_status_failed", "store">>))
             /\ UNCHANGED <<taskStatus, taskDate, purStatus>>
          \/ \E ok \in UpdateRowcounts(taskStatus[t] # "absent",
                                       TaskRowChanges(t, new_status, date)) :
               IF ok
               THEN /\ taskStatus' = [taskStatus EXCEPT ![t] = new_status]
                    /\ taskDate' = IF date # "none" THEN [taskDate EXCEPT ![t] = date]
                                   ELSE taskDate
                    /\ purStatus' = PurchasesAfterTaskUpdate(t, new_status)
                    /\ Return(w, _create_success_response(<<"task_status_updated">>))
               ELSE /\ Return(w, _create_error_response(<<"task_status_update_failed">>))
                    /\ UNCHANGED <<taskStatus, taskDate, purStatus>>
    /\ UNCHANGED <<qty, log, purDate, fixed, op, loc, tx, pre>>

\* ----------------------------------------------- PurchaseService.receive_purchase
\* 材料供应商关联表: the material of a link (0: no such link).
LinkMaterial(link) ==
    CASE link \in {1, 2} -> 1
      [] link = 3 -> 2
      [] OTHER -> 0

\* A check that lets an ordered purchase through.
NotToPurchase_ordered(status) == status \notin {"to_purchase", "ordered"}

\* if status != "待采购"
NotToPurchase(status) == status # "to_purchase"

receive_purchase(w, p, oper, date) ==
    /\ Call(w, [NoOp EXCEPT !.name = "receive_purchase", !.purchase_id = p,
                            !.operator_id = oper, !.date = date], "rp_read")

\* purchase_dao.get_by_id and link_dao.get_by_id with their guards; then the
\* arguments of the update_stock_level call.
rp_read(w) ==
    /\ At(w, "rp_read")
    /\ LET p == op[w].purchase_id
       IN \/ /\ Return(w, _create_error_response(<<"receive_failed", "store">>))
             /\ UNCHANGED op
          \/ /\ purStatus[p] = "absent"
             /\ Return(w, _create_error_response(<<"purchase_missing">>))
             /\ UNCHANGED op
          \/ /\ purStatus[p] = "received"
             /\ Return(w, _create_error_response(<<"already_received">>))
             /\ UNCHANGED op
          \/ /\ purStatus[p] = "cancelled"
             /\ Return(w, _create_error_response(<<"purchase_cancelled">>))
             /\ UNCHANGED op
          \/ /\ purStatus[p] \notin {"absent", "received", "cancelled"}
             /\ NotToPurchase(purStatus[p])
             /\ Return(w, _create_error_response(<<"only_to_purchase">>))
             /\ UNCHANGED op
          \/ /\ purStatus[p] \notin {"absent", "received", "cancelled"}
             /\ ~NotToPurchase(purStatus[p])
             /\ IF purLink[p] = 0 \/ LinkMaterial(purLink[p]) = 0
                THEN /\ Return(w, _create_error_response(<<"link_missing">>))
                     /\ UNCHANGED op
                ELSE IF purQty[p] <= 0
                THEN /\ Return(w, _create_error_response(<<"bad_quantity">>))
                     /\ UNCHANGED op
                ELSE /\ pc' = [pc EXCEPT ![w] = "usl_read"]
                     /\ op' = [op EXCEPT ![w] =
                                 [@ EXCEPT !.material_id = LinkMaterial(purLink[p]),
                                           !.delta = purQty[p], !.change_type = "in",
                                           !.reference = PurchaseRef(p)]]
                     /\ UNCHANGED res
    /\ UNCHANGED <<store, loc, tx, pre>>

\* A receipt date that is taken as given, also when none was given.
ReceiptDate_given(date) == date

\* rdate = receipt_date or date.today().isoformat()
ReceiptDate(date) == IF date # "none" THEN date ELSE "today"

\* purchase_dao.update(purchase_id, {'采购状态': '已收货', '材料收货日期': rdate})
rp_status(w) ==
    /\ At(w, "rp_status")
    /\ LET p == op[w].purchase_id
           rdate == ReceiptDate(op[w].date)
       IN \/ /\ Return(w, _create_error_response(<<"receive_failed", "store">>))
             /\ UNCHANGED <<purStatus, purDate>>
          \/ \E ok \in UpdateRowcounts(purStatus[p] # "absent",
                                       purStatus[p] # "received" \/ purDate[p] # rdate) :
               IF ok
               THEN /\ purStatus' = [purStatus EXCEPT ![p] = "received"]
                    /\ purDate' = [purDate EXCEPT ![p] = rdate]
                    /\ Return(w, _create_success_response(<<"received">>))
               ELSE /\ Return(w, _create_error_response(<<"purchase_status_update_failed">>))
                    /\ UNCHANGED <<purStatus, purDate>>
    /\ UNCHANGED <<qty, log, taskStatus, taskDate, fixed, op, loc, tx, pre>>

\* ------------------------------------------------- PurchaseService.update_status
\* A transition table that lets an ordered purchase be received.
allowed_receipt(current) ==
    CASE current = "to_purchase" -> {"ordered", "cancelled"}
      [] current = "ordered" -> {"cancelled", "received"}
      [] OTHER -> {}

\* allowed = {"待采购": {"已下单", "已取消"}, "已下单": {"已取消"}}
allowed(current) ==
    CASE current = "to_purchase" -> {"ordered", "cancelled"}
      [] current = "ordered" -> {"cancelled"}
      [] OTHER -> {}

\* valid = {"待采购", "已下单", "已收货", "已取消"}
valid == {"to_purchase", "ordered", "received", "cancelled"}

update_status(w, p, new_status) ==
    /\ Call(w, [NoOp EXCEPT !.name = "update_status", !.purchase_id = p,
                            !.new_status = new_status], "pus_read")

\* purchase_dao.get_by_id and the checks of the current and the new status.
pus_read(w) ==
    /\ At(w, "pus_read")
    /\ LET current == purStatus[op[w].purchase_id]
           new_status == op[w].new_status
       IN \/ Return(w, _create_error_response(<<"purchase_status_failed", "store">>))
          \/ IF current = "absent"
             THEN Return(w, _create_error_response(<<"purchase_missing">>))
             ELSE IF current \in {"received", "cancelled"}
             THEN Return(w, _create_error_response(<<"purchase_closed">>))
             ELSE IF new_status \notin valid
             THEN Return(w, _create_error_response(<<"invalid_purchase_status">>))
             ELSE IF new_status \notin allowed(current)
             THEN IF new_status = "received"
                  THEN Return(w, _create_error_response(<<"use_receive">>))
                  ELSE Return(w, _create_error_response(<<"illegal_transition">>))
             ELSE /\ pc' = [pc EXCEPT ![w] = "pus_write"]
                  /\ UNCHANGED res
    /\ UNCHANGED <<store, op, loc, tx, pre>>

\* purchase_dao.update(purchase_id, {"采购状态": new_status})
pus_write(w) ==
    /\ At(w, "pus_write")
    /\ LET p == op[w].purchase_id
       IN \/ /\ Return(w, _create_error_response(<<"purchase_status_failed", "store">>))
             /\ UNCHANGED purStatus
          \/ \E ok \in UpdateRowcounts(purStatus[p] # "absent",
                                       purStatus[p] # op[w].new_status) :
               IF ok
               THEN /\ purStatus' = [purStatus EXCEPT ![p] = op[w].new_status]
                    /\ Return(w, _create_success_response(<<"purchase_status_updated">>))
               ELSE /\ Return(w, _create_error_response(<<"purchase_status_update_failed">>))
                    /\ UNCHANGED purStatus
    /\ UNCHANGED <<qty, log, taskStatus, taskDate, purDate, fixed, op, loc, tx, pre>>

\* ------------------------------------------------ PurchaseService.create_purchase
\* A rounding that cuts the third decimal off.
Round2_floor(n) == {n \div 10}

\* round(x, 2) of x = n thousandths: the nearest hundredth; when x lies half
\* way the binary float nearest to x decides, which may be either side.
Round2(n) ==
    IF n % 10 = 5 THEN {n \div 10, n \div 10 + 1}
    ELSE IF n % 10 < 5 THEN {n \div 10}
    ELSE {n \div 10 + 1}

\* cursor.lastrowid of an INSERT into 采购清单表: the ids not used yet.
FreePurchaseIds == {p \in PurchaseRows : purStatus[p] = "absent"}
NewPurchaseId == CHOOSE p \in FreePurchaseIds : \A q \in FreePurchaseIds : p <= q

\* A check for the wrong closed status.
TaskCancelled_completed(status) == status = "completed"

\* if task.get("任务状态") == "已取消"
TaskCancelled(status) == status = "cancelled"

\* (a call starts only while 采购清单表 holds fewer than PurMaxRows rows)
create_purchase(w, t, l, quantity) ==
    /\ Cardinality(PurchaseRows \ FreePurchaseIds) < PurMaxRows
    /\ Call(w, [NoOp EXCEPT !.name = "create_purchase", !.task_id = t, !.link_id = l,
                            !.quantity = quantity], "cp_task")

\* The argument checks and task_dao.get_by_id with its checks.
cp_task(w) ==
    /\ At(w, "cp_task")
    /\ LET t == op[w].task_id
       IN IF t = 0 \/ op[w].link_id = 0
          THEN Return(w, _create_error_response(<<"task_and_link_required">>))
          ELSE IF op[w].quantity <= 0
          THEN Return(w, _create_error_response(<<"quantity_not_positive">>))
          ELSE \/ Return(w, _create_error_response(<<"create_purchase_failed", "store">>))
               \/ IF t \notin TaskIds \/ taskStatus[t] = "absent"
                  THEN Return(w, _create_error_response(<<"task_missing">>))
                  ELSE IF TaskCancelled(taskStatus[t])
                  THEN Return(w, _create_error_response(<<"task_cancelled">>))
                  ELSE /\ pc' = [pc EXCEPT ![w] = "cp_link"]
                       /\ UNCHANGED res
    /\ UNCHANGED <<store, op, loc, tx, pre>>

\* link_dao.get_by_id; total_cost = round(qty * unit_price, 2)
cp_link(w) ==
    /\ At(w, "cp_link")
    /\ LET l == op[w].link_id
       IN \/ /\ Return(w, _create_error_response(<<"create_purchase_failed", "store">>))
             /\ UNCHANGED loc
          \/ IF l \notin Links
             THEN /\ Return(w, _create_error_response(<<"link_missing">>))
                  /\ UNCHANGED loc
             ELSE \E total_cost \in Round2(op[w].quantity * linkPrice[l]) :
                     /\ loc' = [loc EXCEPT ![w] = [@ EXCEPT !.total_cost = total_cost]]
                     /\ pc' = [pc EXCEPT ![w] = "cp_insert"]
                     /\ UNCHANGED res
    /\ UNCHANGED <<store, op, tx, pre>>

\* purchase_dao.create(payload)
cp_insert(w) ==
    /\ At(w, "cp_insert")
    /\ \/ /\ Return(w, _create_error_response(<<"create_purchase_failed", "store">>))
          /\ UNCHANGED <<purStatus, purQty, purLink, purCost, purTask>>
       \/ /\ FreePurchaseIds # {}
          /\ LET new_id == NewPurchaseId
             IN /\ purStatus' = [purStatus EXCEPT ![new_id] = "to_purchase"]
                /\ purQty' = [purQty EXCEPT ![new_id] = op[w].quantity]
                /\ purLink' = [purLink EXCEPT ![new_id] = op[w].link_id]
                /\ purCost' = [purCost EXCEPT ![new_id] = loc[w].total_cost]
                /\ purTask' = [purTask EXCEPT ![new_id] = op[w].task_id]
                /\ Return(w, _create_success_response_data(new_id, <<"purchase_created">>))
    /\ UNCHANGED <<qty, log, taskStatus, taskDate, purDate, taskQty, taskEmp, linkPrice,
                   supStatus, op, loc, tx, pre>>

\* ------------------------------------------------------ 材料供应商关联表 prices
\* link_dao.update(link_id, {"供应商提供的材料单价": price}): a link's price
\* is changed while no call is returning.
update_link_price(l, price) ==
    /\ \A v \in Workers : pc[v] # "ret"
    /\ linkPrice[l] # price
    /\ linkPrice' = [linkPrice EXCEPT ![l] = price]
    /\ UNCHANGED <<qty, log, taskStatus, taskDate, purStatus, purDate, taskQty, taskEmp,
                   purQty, purLink, purCost, purTask, supStatus, pc, op, loc, tx, res, pre>>

\* ------------------------------------------- 员工表, 书籍核心信息表, suppliers
\* 员工表.在职状态 of an employee id ("absent": no such row).
EmployeeStatus(employee_id) ==
    CASE employee_id = 1 -> "active"
      [] employee_id = 2 -> "left"
      [] OTHER -> "absent"

\* 书籍核心信息表 has the row.
BookExists(book_id) == book_id = 1

\* 材料供应商关联表.供应商id and .是否为首选供应商 of a link.
LinkSupplier(link) ==
    CASE link \in {1, 3} -> 1
      [] link = 2 -> 2
      [] OTHER -> 0

LinkPreferred(link) == link = 2

\* 材料表.材料名称 as the message shows it: name(ID:mid).
MaterialName(m) == IF m = 1 THEN "paper(ID:1)" ELSE "ink(ID:2)"

\* SupplierService.update_supplier_status: a supplier's 合作状态 is changed
\* while no call is returning.
update_supplier_status(s, status) ==
    /\ \A v \in Workers : pc[v] # "ret"
    /\ status \in {"active", "terminated"}
    /\ supStatus[s] # status
    /\ supStatus' = [supStatus EXCEPT ![s] = status]
    /\ UNCHANGED <<qty, log, taskStatus, taskDate, purStatus, purDate, taskQty, taskEmp,
                   purQty, purLink, purCost, purTask, linkPrice, pc, op, loc, tx, res, pre>>

\* A query that leaves the supplier's status out.
get_material_suppliers_any(material_id) ==
    {l \in Links : LinkMaterial(l) = material_id}

\* 材料供应商关联表DAO.get_material_suppliers: the links of the material whose
\* supplier is 合作中.
get_material_suppliers(material_id) ==
    {l \in Links : LinkMaterial(l) = material_id /\ supStatus[LinkSupplier(l)] = "active"}

\* A row of the query's answer; NoRow: None.
SupplierRow(link_id, price, preferred) ==
    [link_id |-> link_id, price |-> price, preferred |-> preferred]

NoRow == SupplierRow(0, 0, FALSE)

\* The rows of get_material_suppliers for the material, as a set.
SupplierRows(material_id) ==
    {SupplierRow(l, linkPrice[l], LinkPreferred(l)) : l \in get_material_suppliers(material_id)}

\* ORDER BY 是否为首选供应商 DESC, 供应商提供的材料单价 ASC: the lists the
\* query may answer with for a set of rows. The rows of one flag come first
\* (which flag sorts higher is the column's business), within a flag the
\* prices ascend, and rows equal in both come in any order.
QueryOrders(rows) ==
    {f \in [1..Cardinality(rows) -> rows] :
        /\ \A i, j \in DOMAIN f : i # j => f[i] # f[j]
        /\ \E first \in BOOLEAN :
              \A i, j \in DOMAIN f :
                 i < j => IF f[i].preferred = f[j].preferred
                          THEN f[i].price <= f[j].price
                          ELSE f[i].preferred = first}

\* min(suppliers, key=lambda x: x['供应商提供的材料单价']): the first of the
\* rows of the least price.
MinByPrice(suppliers) ==
    suppliers[CHOOSE i \in DOMAIN suppliers :
                 /\ \A j \in DOMAIN suppliers : suppliers[i].price <= suppliers[j].price
                 /\ \A j \in DOMAIN suppliers : j < i => suppliers[j].price > suppliers[i].price]

\* A selection that ignores the preferred flag.
SelectFromRows_cheapest(suppliers) ==
    IF suppliers = <<>> THEN NoRow ELSE MinByPrice(suppliers)

\* The body of _select_optimal_supplier for the list the query answered.
SelectFromRows(suppliers) ==
    IF suppliers = <<>> THEN NoRow
    ELSE LET preferred_suppliers == SelectSeq(suppliers, LAMBDA x : x.preferred)
         IN IF preferred_suppliers # <<>>
            THEN MinByPrice(preferred_suppliers)
            ELSE MinByPrice(suppliers)

\* What a selection may return for a set of candidate rows.
SelectionsFrom(rows) == {SelectFromRows(suppliers) : suppliers \in QueryOrders(rows)}

\* What _select_optimal_supplier returns, as a response: the row's link in
\* data (0: None), and what it logged.
Selection(row, logged) ==
    [success |-> row # NoRow, message |-> logged, shortages |-> <<>>, items |-> <<>>, data |-> row.link_id]

\* _select_optimal_supplier with the DAO's answer given: the DAO answers
\* with the candidate rows in one of the orders its query allows.
select_from_rows(w, candidates) ==
    /\ Call(w, [NoOp EXCEPT !.name = "select_from_rows", !.candidates = candidates],
            "sfr_apply")

sfr_apply(w) ==
    /\ At(w, "sfr_apply")
    /\ \E suppliers \in QueryOrders(op[w].candidates) :
          Return(w, Selection(SelectFromRows(suppliers), <<>>))
    /\ UNCHANGED <<store, op, loc, tx, pre>>

\* _select_optimal_supplier(material_id, quantity) on the store.
select_optimal_supplier(w, material_id) ==
    /\ Call(w, [NoOp EXCEPT !.name = "_select_optimal_supplier",
                            !.material_id = material_id], "sos_query")

\* Either the query raises, which is logged and gives None, or it answers.
sos_query(w) ==
    /\ At(w, "sos_query")
    /\ \/ Return(w, Selection(NoRow, <<"selection_failed", "store">>))
       \/ \E suppliers \in QueryOrders(SupplierRows(op[w].material_id)) :
             Return(w, Selection(SelectFromRows(suppliers), <<>>))
    /\ UNCHANGED <<store, op, loc, tx, pre>>

\* The links _select_optimal_supplier may return: the cheapest preferred
\* one, else the cheapest one; among equal prices the row order decides,
\* which the query leaves open. Empty: None.
_select_optimal_supplier(material_id) ==
    {row.link_id : row \in SelectionsFrom(SupplierRows(material_id))} \ {0}

\* -------------------------------------- PrintingTaskService.submit_printing_task
\* cursor.lastrowid of an INSERT into 印刷任务表: the smallest id not used yet.
FreeTaskIds == {t \in TaskIds : taskStatus[t] = "absent"}
NewTaskId == CHOOSE t \in FreeTaskIds : \A u \in FreeTaskIds : t <= u

\* An id the transaction has handed out already.
NextPurchaseId_reused(t) == NewPurchaseId

\* The id the next INSERT into 采购清单表 of transaction t gets.
NextPurchaseId(t) ==
    LET free == {p \in FreePurchaseIds : \A k \in 1..Len(t.purchases) : t.purchases[k].id # p}
    IN CHOOSE p \in free : \A q \in free : p <= q

\* The committed tables with the rows transaction t inserted.
RECURSIVE WithPurchases(_, _, _)
WithPurchases(f, rows, field) ==
    IF rows = <<>> THEN f
    ELSE WithPurchases([f EXCEPT ![Head(rows).id] = Head(rows)[field]], Tail(rows), field)

RECURSIVE WithTasks(_, _, _)
WithTasks(f, rows, field) ==
    IF rows = <<>> THEN f
    ELSE WithTasks([f EXCEPT ![Head(rows).id] = Head(rows)[field]], Tail(rows), field)

\* A rollback that keeps the purchase rows inserted so far.
RollbackInserts_purchases(t) ==
    /\ purStatus' = WithPurchases(purStatus, t.purchases, "status")
    /\ purQty' = WithPurchases(purQty, t.purchases, "quantity")
    /\ purLink' = WithPurchases(purLink, t.purchases, "link_id")
    /\ purCost' = WithPurchases(purCost, t.purchases, "total_cost")
    /\ purTask' = WithPurchases(purTask, t.purchases, "task_id")
    /\ UNCHANGED <<taskStatus, taskQty, taskEmp>>

\* conn.rollback(): none of the inserted rows is kept.
RollbackInserts(t) ==
    UNCHANGED <<taskStatus, taskQty, taskEmp, purStatus, purQty, purLink, purCost, purTask>>

\* conn.commit(): the inserted rows become visible together.
CommitInserts(t) ==
    /\ taskStatus' = WithTasks(taskStatus, t.tasks, "status")
    /\ taskQty' = WithTasks(taskQty, t.tasks, "quantity")
    /\ taskEmp' = WithTasks(taskEmp, t.tasks, "employee_id")
    /\ purStatus' = WithPurchases(purStatus, t.purchases, "status")
    /\ purQty' = WithPurchases(purQty, t.purchases, "quantity")
    /\ purLink' = WithPurchases(purLink, t.purchases, "link_id")
    /\ purCost' = WithPurchases(purCost, t.purchases, "total_cost")
    /\ purTask' = WithPurchases(purTask, t.purchases, "task_id")

\* The task and one purchase per required material fit the tables.
submit_printing_task(w, task_data) ==
    /\ FreeTaskIds # {}
    /\ Cardinality(FreePurchaseIds) >= Len(RequiredOrder)
    /\ Call(w, [NoOp EXCEPT !.name = "submit_printing_task", !.task_data = task_data],
            "spt_validate")

\* A validation that lets a quantity of 0 through.
InvalidQuantity_negative(quantity) == quantity < 0

\* if task_data['印刷数量'] <= 0
InvalidQuantity(quantity) == quantity <= 0

\* _validate_task_data, then employee_dao.get_by_id of _validate_associated_data.
spt_validate(w) ==
    /\ At(w, "spt_validate")
    /\ LET d == op[w].task_data
       IN IF d.none # {}
          THEN Return(w, _create_error_response(<<"missing_fields">>))
          ELSE IF InvalidQuantity(d.quantity)
          THEN Return(w, _create_error_response(<<"quantity_not_positive">>))
          ELSE IF d.due_date = "bad"
          THEN Return(w, _create_error_response(<<"due_date_format">>))
          ELSE IF d.due_date = "past"
          THEN Return(w, _create_error_response(<<"due_date_past">>))
          ELSE \/ Return(w, _create_error_response(<<"validate_failed", "store">>))
               \/ IF EmployeeStatus(d.employee_id) # "active"
                  THEN Return(w, _create_error_response(<<"employee_missing_or_left">>))
                  ELSE /\ pc' = [pc EXCEPT ![w] = "spt_book"]
                       /\ UNCHANGED res
    /\ UNCHANGED <<store, op, loc, tx, pre>>

\* book_dao.get_by_id of _validate_associated_data.
spt_book(w) ==
    /\ At(w, "spt_book")
    /\ \/ Return(w, _create_error_response(<<"validate_failed", "store">>))
       \/ IF ~BookExists(op[w].task_data.book_id)
          THEN Return(w, _create_error_response(<<"book_missing">>))
          ELSE /\ pc' = [pc EXCEPT ![w] = "spt_connect"]
               /\ UNCHANGED res
    /\ UNCHANGED <<store, op, loc, tx, pre>>

\* db_manager.get_connection(), outside the try: its exception is not caught.
spt_connect(w) ==
    /\ At(w, "spt_connect")
    /\ \/ /\ Return(w, Raised(<<"connection">>))
          /\ UNCHANGED tx
       \/ /\ tx' = [tx EXCEPT ![w] = [NoTx EXCEPT !.open = TRUE]]
          /\ pc' = [pc EXCEPT ![w] = "spt_task"]
          /\ UNCHANGED res
    /\ UNCHANGED <<store, op, loc, pre>>

\* conn.start_transaction(); task_dao.create_with_connection(task_data, conn);
\* materials_required = self._calculate_material_requirements(task_data)
spt_task(w) ==
    /\ At(w, "spt_task")
    /\ \/ /\ RollbackInserts(tx[w])
          /\ tx' = [tx EXCEPT ![w] = NoTx]
          /\ Return(w, _create_error_response(<<"system_error", "store">>))
          /\ UNCHANGED loc
       \/ /\ tx' = [tx EXCEPT ![w] =
                      [@ EXCEPT !.tasks = <<[id |-> NewTaskId, status |-> "pending",
                                             quantity |-> op[w].task_data.quantity,
                                             employee_id |-> op[w].task_data.employee_id]>>]]
          /\ loc' = [loc EXCEPT ![w] = [@ EXCEPT !.task_id = NewTaskId, !.idx = 1]]
          /\ pc' = [pc EXCEPT ![w] = "spt_material"]
          /\ UNCHANGED <<taskStatus, taskQty, taskEmp, purStatus, purQty, purLink, purCost,
                         purTask, res>>
    /\ UNCHANGED <<qty, log, taskDate, purDate, linkPrice, supStatus, op, pre>>

\* One round of the loop of _generate_purchase_requirements. First branch:
\* best_supplier is None, which the selection returns when it finds no link
\* and also when its query raises. Second: the INSERT raises. Third: the
\* purchase row is inserted on conn.
spt_material(w) ==
    /\ At(w, "spt_material")
    /\ LET m == RequiredOrder[loc[w].idx]
           required_qty == _calculate_material_requirements(op[w].task_data.quantity)[m]
           last == loc[w].idx = Len(RequiredOrder)
           after(missing) == IF ~last THEN "spt_material"
                             ELSE IF missing # <<>> THEN "spt_names" ELSE "spt_commit"
       IN \/ /\ LET missing == Append(loc[w].missing_materials, m)
                IN /\ loc' = [loc EXCEPT ![w] = [@ EXCEPT !.missing_materials = missing,
                                                         !.idx = @ + 1]]
                   /\ pc' = [pc EXCEPT ![w] = after(missing)]
             /\ UNCHANGED <<taskStatus, taskQty, taskEmp, purStatus, purQty, purLink, purCost,
                            purTask, tx, res>>
          \/ /\ _select_optimal_supplier(m) # {}
             /\ RollbackInserts(tx[w])
             /\ tx' = [tx EXCEPT ![w] = NoTx]
             /\ Return(w, _create_error_response(<<"system_error", "generate_failed", "store">>))
             /\ UNCHANGED loc
          \/ \E best_supplier \in _select_optimal_supplier(m) :
             \E total_cost \in Round2(required_qty * linkPrice[best_supplier]) :
                /\ tx' = [tx EXCEPT ![w] =
                            [@ EXCEPT !.purchases =
                                Append(@, [id |-> NextPurchaseId(tx[w]),
                                           task_id |-> loc[w].task_id,
                                           link_id |-> best_supplier,
                                           quantity |-> required_qty,
                                           total_cost |-> total_cost,
                                           status |-> "to_purchase"])]]
                /\ loc' = [loc EXCEPT ![w] = [@ EXCEPT !.idx = @ + 1]]
                /\ pc' = [pc EXCEPT ![w] = after(loc[w].missing_materials)]
                /\ UNCHANGED <<taskStatus, taskQty, taskEmp, purStatus, purQty, purLink,
                               purCost, purTask, res>>
    /\ UNCHANGED <<qty, log, taskDate, purDate, linkPrice, supStatus, op, pre>>

RECURSIVE Names(_)
Names(missing) ==
    IF missing = <<>> THEN <<>> ELSE <<MaterialName(Head(missing))>> \o Names(Tail(missing))

\* "以下材料没有可用供应商：" + ", ".join(names)
MissingMessage(missing_materials) ==
    <<"system_error", "generate_failed", "no_supplier">> \o Names(missing_materials)

\* material_dao.get_by_id of every missing material; the error response makes
\* submit_printing_task raise, roll back and return the message.
spt_names(w) ==
    /\ At(w, "spt_names")
    /\ RollbackInserts(tx[w])
    /\ tx' = [tx EXCEPT ![w] = NoTx]
    /\ \/ Return(w, _create_error_response(<<"system_error", "generate_failed", "store">>))
       \/ Return(w, _create_error_response(MissingMessage(loc[w].missing_materials)))
    /\ UNCHANGED <<qty, log, taskDate, purDate, linkPrice, supStatus, op, loc, pre>>

\* conn.commit()
spt_commit(w) ==
    /\ At(w, "spt_commit")
    /\ \/ /\ RollbackInserts(tx[w])
          /\ Return(w, _create_error_response(<<"system_error", "store">>))
       \/ /\ CommitInserts(tx[w])
          /\ Return(w, _create_success_response_data(loc[w].task_id, <<"task_submitted">>))
    /\ tx' = [tx EXCEPT ![w] = NoTx]
    /\ UNCHANGED <<qty, log, taskDate, purDate, linkPrice, supStatus, op, loc, pre>>

\* ------------------------------------------------------------ specification
InitQty == [m \in Materials |-> IF m = 1 THEN InitPaper ELSE InitInk]

Init ==
    /\ qty = InitQty
    /\ log = <<>>
    /\ taskStatus = [t \in TaskIds |-> IF t = 1 THEN "pending" ELSE "absent"]
    /\ taskDate = [t \in TaskIds |-> "none"]
    /\ taskQty = [t \in TaskIds |-> IF t = 1 THEN TaskQuantity ELSE 0]
    /\ taskEmp = [t \in TaskIds |-> IF t = 1 THEN 1 ELSE 0]
    /\ purStatus = [p \in PurchaseRows |-> IF p \in {1, 3, 4} THEN "to_purchase" ELSE "absent"]
    /\ purDate = [p \in PurchaseRows |-> "none"]
    /\ purQty = [p \in PurchaseRows |-> IF p \in {1, 3} THEN PurchaseQuantity ELSE 0]
    /\ purLink = [p \in PurchaseRows |-> IF p \in {1, 4} THEN 1 ELSE 0]
    /\ purCost = [p \in PurchaseRows |->
                    IF p \in {1, 3} THEN (PurchaseQuantity * InitPrice) \div 10 ELSE 0]
    /\ purTask = [p \in PurchaseRows |-> IF p \in {1, 3, 4} THEN 1 ELSE 0]
    /\ linkPrice = [l \in Links |-> InitPrice]
    /\ supStatus = [s \in Suppliers |-> "active"]
    /\ pc = [w \in Workers |-> "idle"]
    /\ op = [w \in Workers |-> NoOp]
    /\ loc = [w \in Workers |-> NoLoc]
    /\ tx = [w \in Workers |-> NoTx]
    /\ res = [w \in Workers |-> NoRes]
    /\ pre = [w \in Workers |-> NoPre]

\* The inputs callers draw from.
C(m, d) == Change(m, d, DefaultKind(d), Manual, 1)

Inputs ==
    [materials |-> MaterialIds, deltas |-> {0 - 6, 5},
     batches |-> { <<>>,
                   <<C(1, 0 - 6)>>,
                   <<C(1, 0 - 6), C(1, 0 - 6)>>,
                   <<C(1, 5), C(2, 0 - 6)>>,
                   <<C(2, 5), C(3, 5)>>,
                   <<C(2, 5), C(1, 0)>>,
                   <<C(2, 5), C(1, 0 - 6)>> },
     tasks |-> TaskIds, operators |-> {0, 1}, dates |-> {"none", "d1"},
     statuses |-> valid_statuses \cup {"bogus"}, purchases |-> PurchaseIds]

\* Overlapping calls draw from fewer inputs.
ConcInputs ==
    [materials |-> {1}, deltas |-> {0 - 6, 5},
     batches |-> { <<C(1, 0 - 6)>>, <<C(2, 5), C(1, 0 - 6)>> },
     tasks |-> {1}, operators |-> {1}, dates |-> {"none"},
     statuses |-> {"completed"}, purchases |-> {1}]

Calls(w, I) ==
    \/ \E m \in I.materials, d \in I.deltas :
          update_stock_level(w, m, d, DefaultKind(d), Manual, 1)
    \/ \E changes \in I.batches : batch_update_stock(w, changes)
    \/ \E t \in I.tasks, oper \in I.operators, date \in I.dates :
          complete_task_manual(w, t, oper, date)
    \/ \E t \in I.tasks, s \in I.statuses, date \in I.dates, oper \in I.operators :
          update_task_status(w, t, s, date, oper)
    \/ \E p \in I.purchases, date \in I.dates : receive_purchase(w, p, 1, date)

Steps(w) ==
    \/ usl_read(w) \/ usl_write(w) \/ usl_commit(w)
    \/ batch_enter(w) \/ batch_select(w) \/ batch_write(w) \/ batch_commit(w)
    \/ ctm_read(w) \/ ctm_check(w) \/ ctm_status(w)
    \/ uts_enter(w) \/ uts_read(w) \/ uts_write(w)
    \/ rp_read(w) \/ rp_status(w)

\* One caller at a time: calls do not overlap.
Next == \E w \in {1} : Calls(w, Inputs) \/ Steps(w) \/ Ack(w)

Spec == Init /\ [][Next]_vars

\* Callers on every worker: calls overlap at every store round trip.
NextConc == \E w \in Workers : Calls(w, ConcInputs) \/ Steps(w) \/ Ack(w)

SpecConc == Init /\ [][NextConc]_vars

\* The purchase workflow, one caller at a time.
PurInputs ==
    [purchases |-> 1..4, status_purchases |-> {1, 2},
     statuses |-> valid \cup {"bogus"}, dates |-> {"none", "d1"},
     creations |-> { <<0, 1, 5>>, <<1, 0, 5>>, <<1, 1, 0>>, <<1, 1, 5>>, <<2, 1, 5>>,
                     <<1, 4, 5>> },
     tasks |-> {1}, task_statuses |-> {"cancelled"},
     prices |-> {1}, price_links |-> {1}]

PurCalls(w, I) ==
    \/ \E p \in I.status_purchases, s \in I.statuses : update_status(w, p, s)
    \/ \E p \in I.purchases, date \in I.dates : receive_purchase(w, p, 1, date)
    \/ \E c \in I.creations : create_purchase(w, c[1], c[2], c[3])
    \/ \E t \in I.tasks, s \in I.task_statuses :
          update_task_status(w, t, s, "none", 0)

PurSteps(w) ==
    \/ pus_read(w) \/ pus_write(w)
    \/ rp_read(w) \/ usl_read(w) \/ usl_write(w) \/ usl_commit(w) \/ rp_status(w)
    \/ cp_task(w) \/ cp_link(w) \/ cp_insert(w)
    \/ uts_enter(w) \/ uts_write(w)

NextPur ==
    \/ \E w \in {1} : PurCalls(w, PurInputs) \/ PurSteps(w) \/ Ack(w)
    \/ \E l \in PurInputs.price_links, price \in PurInputs.prices : update_link_price(l, price)

SpecPur == Init /\ [][NextPur]_vars

\* Receipt and status change of the same purchase by callers on every worker.
RaceInputs ==
    [purchases |-> {1}, statuses |-> {"cancelled", "ordered"}, dates |-> {"none"}]

NextRace ==
    \E w \in Workers :
       \/ \E p \in RaceInputs.purchases, s \in RaceInputs.statuses : update_status(w, p, s)
       \/ \E p \in RaceInputs.purchases, date \in RaceInputs.dates :
             receive_purchase(w, p, 1, date)
       \/ pus_read(w) \/ pus_write(w)
       \/ rp_read(w) \/ usl_read(w) \/ usl_write(w) \/ usl_commit(w) \/ rp_status(w)
       \/ Ack(w)

SpecRace == Init /\ [][NextRace]_vars

\* Task submission, one caller at a time; suppliers change between calls.
TaskData(employee_id, book_id, due_date, quantity, none) ==
    [employee_id |-> employee_id, book_id |-> book_id, due_date |-> due_date,
     quantity |-> quantity, none |-> none]

SubInputs ==
    [task_data |-> { TaskData(1, 1, "future", 1, {}),
                     TaskData(1, 1, "today", 1, {}),
                     TaskData(1, 1, "future", 1, {"quantity"}),
                     TaskData(1, 1, "future", 0, {}),
                     TaskData(1, 1, "bad", 1, {}),
                     TaskData(1, 1, "past", 1, {}),
                     TaskData(2, 1, "future", 1, {}),
                     TaskData(3, 1, "future", 1, {}),
                     TaskData(1, 2, "future", 1, {}) },
     suppliers |-> Suppliers, supplier_statuses |-> {"active", "terminated"},
     tasks |-> {1}, task_statuses |-> {"cancelled"}, materials |-> MaterialIds]

SubSteps(w) ==
    \/ spt_validate(w) \/ spt_book(w) \/ spt_connect(w) \/ spt_task(w)
    \/ spt_material(w) \/ spt_names(w) \/ spt_commit(w)

NextSub ==
    \/ \E w \in {1} :
          \/ \E task_data \in SubInputs.task_data : submit_printing_task(w, task_data)
          \/ \E m \in SubInputs.materials : select_optimal_supplier(w, m)
          \/ SubSteps(w)
          \/ sos_query(w)
          \/ Ack(w)
    \/ \E s \in SubInputs.suppliers, status \in SubInputs.supplier_statuses :
          /\ \A v \in Workers : pc[v] = "idle"
          /\ update_supplier_status(s, status)

SpecSub == Init /\ [][NextSub]_vars

\* Purchase rows from their creation, by either path, through everything
\* that happens to them later; prices change between calls.
CostInputs ==
    [creations |-> { <<1, 1, 5>>, <<1, 3, 1>> },
     task_data |-> { TaskData(1, 1, "future", 1, {}) },
     status_purchases |-> {2}, statuses |-> {"ordered", "cancelled"},
     purchases |-> {2}, dates |-> {"none"},
     tasks |-> {1}, task_statuses |-> {"cancelled"},
     price_links |-> {1, 3}, prices |-> {7}]

NextCost ==
    \/ \E w \in {1} :
          \/ \E c \in CostInputs.creations : create_purchase(w, c[1], c[2], c[3])
          \/ \E task_data \in CostInputs.task_data : submit_printing_task(w, task_data)
          \/ \E p \in CostInputs.status_purchases, s \in CostInputs.statuses :
                update_status(w, p, s)
          \/ \E p \in CostInputs.purchases, date \in CostInputs.dates :
                receive_purchase(w, p, 1, date)
          \/ \E t \in CostInputs.tasks, s \in CostInputs.task_statuses :
                update_task_status(w, t, s, "none", 0)
          \/ PurSteps(w)
          \/ SubSteps(w)
          \/ Ack(w)
    \/ \E l \in CostInputs.price_links, price \in CostInputs.prices :
          /\ \A v \in Workers : pc[v] = "idle"
          /\ update_link_price(l, price)

SpecCost == Init /\ [][NextCost]_vars

\* A task from its submission through the requirements view to its
\* completion, one caller at a time.
ReqInputs ==
    [task_data |-> { TaskData(1, 1, "future", 1, {}), TaskData(1, 1, "future", 2, {}) },
     tasks |-> TaskIds, operators |-> {1}, dates |-> {"none"},
     statuses |-> {"completed"}]

NextReq ==
    \E w \in {1} :
       \/ \E task_data \in ReqInputs.task_data : submit_printing_task(w, task_data)
       \/ \E t \in ReqInputs.tasks : get_task_requirements(w, t)
       \/ \E t \in ReqInputs.tasks, oper \in ReqInputs.operators, date \in ReqInputs.dates :
             complete_task_manual(w, t, oper, date)
       \/ \E t \in ReqInputs.tasks, s \in ReqInputs.statuses, date \in ReqInputs.dates,
             oper \in ReqInputs.operators :
             update_task_status(w, t, s, date, oper)
       \/ spt_validate(w) \/ spt_book(w) \/ spt_connect(w) \/ spt_task(w)
       \/ spt_material(w) \/ spt_names(w) \/ spt_commit(w)
       \/ gtr_task(w) \/ gtr_material(w)
       \/ ctm_read(w) \/ ctm_check(w) \/ ctm_status(w)
       \/ uts_enter(w) \/ uts_read(w) \/ uts_write(w)
       \/ batch_select(w) \/ batch_write(w) \/ batch_commit(w)
       \/ Ack(w)

SpecReq == Init /\ [][NextReq]_vars

\* The operations that open a transaction, one caller at a time.
TxInputs ==
    [materials |-> {1}, deltas |-> {0 - 6, 5},
     batches |-> { <<C(1, 0 - 6), C(1, 0 - 6)>>, <<C(2, 5), C(1, 0 - 6)>> },
     task_data |-> { TaskData(1, 1, "future", 1, {}) }]

NextTx ==
    \E w \in {1} :
       \/ \E m \in TxInputs.materials, d \in TxInputs.deltas :
             update_stock_level(w, m, d, DefaultKind(d), Manual, 1)
       \/ \E changes \in TxInputs.batches : batch_update_stock(w, changes)
       \/ \E task_data \in TxInputs.task_data : submit_printing_task(w, task_data)
       \/ usl_read(w) \/ usl_write(w) \/ usl_commit(w)
       \/ batch_enter(w) \/ batch_select(w) \/ batch_write(w) \/ batch_commit(w)
       \/ spt_validate(w) \/ spt_book(w) \/ spt_connect(w) \/ spt_task(w)
       \/ spt_material(w) \/ spt_names(w) \/ spt_commit(w)
       \/ Ack(w)

SpecTx == Init /\ [][NextTx]_vars

\* Completion through update_task_status while the stock runs down, one
\* caller at a time.
ShortInputs ==
    [materials |-> Materials, deltas |-> {0 - 2, 0 - 6},
     tasks |-> {1}, statuses |-> {"completed"}, dates |-> {"none", "d1"},
     operators |-> {0, 1}]

NextShort ==
    \E w \in {1} :
       \/ \E m \in ShortInputs.materials, d \in ShortInputs.deltas :
             update_stock_level(w, m, d, DefaultKind(d), Manual, 1)
       \/ \E t \in ShortInputs.tasks, s \in ShortInputs.statuses,
             date \in ShortInputs.dates, oper \in ShortInputs.operators :
             update_task_status(w, t, s, date, oper)
       \/ usl_read(w) \/ usl_write(w) \/ usl_commit(w)
       \/ uts_enter(w) \/ uts_read(w) \/ uts_write(w)
       \/ batch_select(w) \/ batch_write(w) \/ batch_commit(w)
       \/ Ack(w)

SpecShort == Init /\ [][NextShort]_vars

\* Supplier selection on candidate rows given by the caller.
MaxCandidates == 3
SelPrices == {8, 10}

SelInputs ==
    [candidates |->
        {rows \in SUBSET {SupplierRow(l, price, preferred) :
                            l \in 1..MaxCandidates, price \in SelPrices,
                            preferred \in BOOLEAN} :
            \A r, q \in rows : r.link_id = q.link_id => r = q}]

NextSel ==
    \E w \in {1} :
       \/ \E candidates \in SelInputs.candidates : select_from_rows(w, candidates)
       \/ sfr_apply(w)
       \/ Ack(w)

SpecSel == Init /\ [][NextSel]_vars

\* ------------------------------------------------------------------ claims
\* What the claims speak of, written apart from the actions above.
RECURSIVE SumDeltas(_, _)
SumDeltas(rows, m) ==
    IF rows = <<>> THEN 0
    ELSE (IF Head(rows).material_id = m THEN Head(rows).delta ELSE 0)
         + SumDeltas(Tail(rows), m)

\* The rows added to the log since the call of worker w started.
NewRows(w) == SubSeq(log, Len(pre[w].log) + 1, Len(log))
LogGrew(w) ==
    /\ Len(log) >= Len(pre[w].log)
    /\ SubSeq(log, 1, Len(pre[w].log)) = pre[w].log

RowsFor(rows, m) == SelectSeq(rows, LAMBDA r : r.material_id = m)

StockUnchanged(w) == qty = pre[w].qty /\ log = pre[w].log

\* The quantity of m after the first k changes of a batch applied to q.
RunningQty(q, changes, k, m) == q[m] + SumDeltas(SubSeq(changes, 1, k), m)

\* Some item of the batch, applied after the items before it, takes its
\* material below 0.
GoesNegative(q, changes) ==
    \E k \in 1..Len(changes) :
        /\ changes[k].material_id \in Materials
        /\ RunningQty(q, changes, k, changes[k].material_id) < 0

InBatch(w) == pc[w] \in {"batch_enter", "batch_select", "batch_write", "batch_commit"}

Required(t) == [m \in Materials |-> IF m = 1 THEN (taskQty[t] * 5) ELSE taskQty[t]]

\* C1: in every reachable state, under any interleaving of the five stock
\* changing operations, every material's quantity on hand is >= 0 (and so is
\* every quantity a transaction is about to commit).
C1_NonNegative ==
    /\ \A m \in Materials : qty[m] >= 0
    /\ \A w \in Workers : \A m \in DOMAIN tx[w].writes : tx[w].writes[m] >= 0

\* A call is refused for lack of stock while another call is in progress and
\* stock has already moved.
C1_Witness ==
    \E w \in Workers, v \in Workers :
        /\ pc[w] = "ret"
        /\ res[w].message \in {<<"negative_stock">>, <<"batch_failed", "insufficient">>}
        /\ pc[v] \notin {"idle", "ret"}
        /\ qty # InitQty

\* C2: a batch in which some item would take its material below 0 returns
\* failure, and afterwards every quantity is what it was before the call and
\* no log row has been added.
C2_BatchRejected ==
    \A w \in Workers :
        (/\ pc[w] = "ret"
         /\ op[w].name = "batch_update_stock"
         /\ GoesNegative(pre[w].qty, op[w].changes))
        => (~res[w].success /\ StockUnchanged(w))

\* The negative item is the second one: the first was already updated and
\* logged inside the transaction.
C2_Witness ==
    \E w \in Workers :
        /\ pc[w] = "ret"
        /\ op[w].name = "batch_update_stock"
        /\ Len(op[w].changes) = 2
        /\ ~GoesNegative(pre[w].qty, SubSeq(op[w].changes, 1, 1))
        /\ GoesNegative(pre[w].qty, op[w].changes)
        /\ res[w].message = <<"batch_failed", "insufficient">>

\* C3: batch_update_stock is all-or-nothing: nothing of a batch is observable
\* while it runs or after it failed (for whatever reason); after it succeeded
\* all its quantity changes and all its log rows are there together.
C3_AllOrNothing ==
    \A w \in Workers :
        op[w].name = "batch_update_stock" =>
            /\ InBatch(w) => StockUnchanged(w)
            /\ (pc[w] = "ret" /\ ~res[w].success) => StockUnchanged(w)
            /\ (pc[w] = "ret" /\ res[w].success) =>
                  /\ log = pre[w].log \o op[w].changes
                  /\ qty = [m \in Materials |->
                              RunningQty(pre[w].qty, op[w].changes, Len(op[w].changes), m)]

\* The batch failed on its second item for a reason other than stock, after
\* the first item was updated and logged inside the transaction.
C3_Witness ==
    \E w \in Workers :
        /\ pc[w] = "ret"
        /\ op[w].name = "batch_update_stock"
        /\ loc[w].idx = 2
        /\ res[w].message \in {<<"batch_failed", "material_missing">>,
                               <<"batch_failed", "store">>, <<"batch_failed", "update">>}

\* C4: when calls do not overlap, every quantity is its initial value plus the
\* deltas of its log rows; a call changes a quantity only together with new
\* log rows of that material whose deltas add up to the change, one row per
\* change (a batch: one row per item); a failed stock call changes nothing.
C4_AuditPairing ==
    /\ \A m \in Materials : qty[m] = InitQty[m] + SumDeltas(log, m)
    /\ \A w \in Workers :
          pc[w] = "ret" =>
            /\ LogGrew(w)
            /\ \A m \in Materials :
                  /\ qty[m] - pre[w].qty[m] = SumDeltas(NewRows(w), m)
                  /\ qty[m] # pre[w].qty[m] => RowsFor(NewRows(w), m) # <<>>
                  /\ op[w].name # "batch_update_stock" => Len(RowsFor(NewRows(w), m)) <= 1
            /\ \A i \in 1..Len(NewRows(w)) : NewRows(w)[i].material_id \in Materials
            /\ op[w].name = "batch_update_stock" =>
                  Len(NewRows(w)) \in {0, Len(op[w].changes)}
            /\ (op[w].name \in {"update_stock_level", "batch_update_stock"}
                /\ ~res[w].success) => StockUnchanged(w)

\* A purchase was received: one quantity changed, with one new log row.
C4_Witness ==
    \E w \in Workers :
        /\ pc[w] = "ret"
        /\ op[w].name = "receive_purchase"
        /\ res[w].success
        /\ qty # pre[w].qty
        /\ Len(NewRows(w)) = 1
        /\ Len(pre[w].log) > 0

\* C5: overlapping stock updates lose no update: after an update_stock_level
\* that committed, the material's quantity is its initial value plus the deltas
\* of all its log rows.
C5_NoLostUpdate ==
    \A w \in Workers :
        (pc[w] = "ret" /\ op[w].name = "update_stock_level" /\ res[w].success)
        => qty[op[w].material_id]
             = InitQty[op[w].material_id] + SumDeltas(log, op[w].material_id)

\* C6: a completed task has, for every material it requires, a committed
\* stock-out log row with reference task:{taskId} and delta = -required.
HasStockOut(t, m, r) ==
    \E i \in 1..Len(log) :
        /\ log[i].material_id = m
        /\ log[i].delta = 0 - r
        /\ log[i].change_type = "out"
        /\ log[i].reference = <<"task", t>>

C6_CompletedAfterDeduction ==
    \A t \in TaskIds :
        taskStatus[t] = "completed" =>
            \A m \in Materials : Required(t)[m] # 0 => HasStockOut(t, m, Required(t)[m])

\* update_task_status has just set a task to completed.
C6_Witness ==
    \E w \in Workers :
        /\ pc[w] = "ret"
        /\ op[w].name = "update_task_status"
        /\ res[w].success
        /\ taskStatus[op[w].task_id] = "completed"
        /\ pre[w].taskStatus[op[w].task_id] = "pending"

\* C7: complete_task_manual on an open task with some required material short
\* returns failure, changes neither the task nor any quantity nor the log, and
\* (unless the store itself failed) returns a shortage list of exactly the
\* short materials with required, available and shortfall = required - available.
ShortMaterials(q, t) == SelectSeq(<<1, 2>>, LAMBDA m : q[m] < Required(t)[m])

ExpectedShortages(q, t) ==
    LET short == ShortMaterials(q, t)
    IN IF short = <<>> THEN <<>>
       ELSE [i \in 1..Len(short) |->
               [material_id |-> short[i], required_qty |-> Required(t)[short[i]],
                current_stock |-> q[short[i]],
                shortage |-> Required(t)[short[i]] - q[short[i]]]]

ShortCompletion(w) ==
    /\ pc[w] = "ret"
    /\ op[w].name = "complete_task_manual"
    /\ op[w].operator_id # 0
    /\ pre[w].taskStatus[op[w].task_id] \in {"pending", "in_progress"}
    /\ ShortMaterials(pre[w].qty, op[w].task_id) # <<>>

C7_ShortageRejected ==
    \A w \in Workers :
        ShortCompletion(w) =>
            /\ ~res[w].success
            /\ StockUnchanged(w)
            /\ taskStatus = pre[w].taskStatus
            /\ taskDate = pre[w].taskDate
            /\ \/ res[w].message = <<"complete_failed", "store">>
               \/ /\ res[w].message = <<"shortage">>
                  /\ res[w].shortages = ExpectedShortages(pre[w].qty, op[w].task_id)

\* One material is short and the other is not; the shortage list came back.
C7_Witness ==
    \E w \in Workers :
        /\ ShortCompletion(w)
        /\ res[w].message = <<"shortage">>
        /\ Len(res[w].shortages) = 1
        /\ res[w].shortages[1].shortage > 0

\* C8: a successful complete_task_manual ran on a pending or in_progress task,
\* took exactly the required amount off each required material, added exactly
\* one 'out' row with reference task:{taskId} per required material, and set
\* the task to completed (with the date, when one was given); the rows were
\* committed together, before the status was written.
ExpectedStockOut(t, oper) ==
    [i \in 1..2 |-> [material_id |-> i, delta |-> 0 - Required(t)[i], change_type |-> "out",
                     reference |-> <<"task", t>>, operator_id |-> oper]]

Deducted(w) ==
    /\ qty = [m \in Materials |-> pre[w].qty[m] - Required(op[w].task_id)[m]]
    /\ log = pre[w].log \o ExpectedStockOut(op[w].task_id, op[w].operator_id)

C8_CompletionDeducts ==
    \A w \in Workers :
        op[w].name = "complete_task_manual" =>
            /\ pc[w] \in {"ctm_read", "ctm_check", "batch_select", "batch_write",
                          "batch_commit"}
                  => (StockUnchanged(w) /\ taskStatus = pre[w].taskStatus)
            /\ pc[w] = "ctm_status" => (Deducted(w) /\ taskStatus = pre[w].taskStatus)
            /\ (pc[w] = "ret" /\ res[w].success) =>
                  /\ pre[w].taskStatus[op[w].task_id] \in {"pending", "in_progress"}
                  /\ Deducted(w)
                  /\ taskStatus = [pre[w].taskStatus EXCEPT ![op[w].task_id] = "completed"]
                  /\ taskDate = IF op[w].date = "none" THEN pre[w].taskDate
                                ELSE [pre[w].taskDate EXCEPT ![op[w].task_id] = op[w].date]

\* A task in progress was completed by hand, with a completion date.
C8_Witness ==
    \E w \in Workers :
        /\ pc[w] = "ret"
        /\ op[w].name = "complete_task_manual"
        /\ res[w].success
        /\ op[w].date = "d1"
        /\ pre[w].taskStatus[op[w].task_id] = "in_progress"

\* C9: completing a task that is already completed or cancelled fails through
\* both entry points, moves no stock and adds no log row; so no task has more
\* than one stock-out row per material.
Completes(w) ==
    \/ op[w].name = "complete_task_manual"
    \/ op[w].name = "update_task_status" /\ op[w].new_status = "completed"

C9_NoCompletionOfTerminal ==
    /\ \A w \in Workers :
          (/\ pc[w] = "ret"
           /\ Completes(w)
           /\ pre[w].taskStatus[op[w].task_id] \in {"completed", "cancelled"})
          => (~res[w].success /\ StockUnchanged(w))
    /\ \A t \in TaskIds, m \in Materials :
          Len(SelectSeq(log, LAMBDA r : r.reference = <<"task", t>> /\ r.material_id = m)) <= 1

\* C10: completed and cancelled are terminal: no update_task_status call on a
\* task in one of them changes the task's status.
C10_TerminalStatuses ==
    \A w \in Workers :
        (/\ pc[w] = "ret"
         /\ op[w].name = "update_task_status"
         /\ pre[w].taskStatus[op[w].task_id] \in {"completed", "cancelled"})
        => taskStatus = pre[w].taskStatus

\* C11: PurchaseService.update_status succeeds only for to_purchase->ordered,
\* to_purchase->cancelled and ordered->cancelled and then sets just the status;
\* for every other (current, target) pair it fails; a failed call leaves the
\* purchase rows as they were; an accepted pair fails only when the store does.
AcceptedTransitions ==
    { <<"to_purchase", "ordered">>, <<"to_purchase", "cancelled">>, <<"ordered", "cancelled">> }

PurchaseRowsUnchangedBut(w, status) ==
    /\ purStatus = status
    /\ purDate = pre[w].purDate
    /\ purQty = pre[w].purQty
    /\ purLink = pre[w].purLink
    /\ purCost = pre[w].purCost
    /\ purTask = pre[w].purTask

C11_PurchaseTransitions ==
    \A w \in Workers :
        (pc[w] = "ret" /\ op[w].name = "update_status") =>
            LET p == op[w].purchase_id
                pair == <<pre[w].purStatus[p], op[w].new_status>>
            IN /\ res[w].success =>
                    /\ pair \in AcceptedTransitions
                    /\ PurchaseRowsUnchangedBut(w, [pre[w].purStatus EXCEPT ![p] = pair[2]])
               /\ ~res[w].success => PurchaseRowsUnchangedBut(w, pre[w].purStatus)
               /\ pair \notin AcceptedTransitions => ~res[w].success
               /\ (pair \in AcceptedTransitions /\ ~res[w].success) =>
                    res[w].message \in {<<"purchase_status_failed", "store">>,
                                        <<"purchase_status_update_failed">>}

\* A received purchase was asked to become cancelled and was refused.
C11_Witness ==
    \E w \in Workers :
        /\ pc[w] = "ret"
        /\ op[w].name = "update_status"
        /\ pre[w].purStatus[op[w].purchase_id] = "received"
        /\ op[w].new_status = "cancelled"
        /\ res[w].message = <<"purchase_closed">>

\* C12: receive_purchase on a purchase that is missing, ordered, received or
\* cancelled, or whose link does not resolve, or whose quantity is <= 0, fails,
\* changes no quantity, adds no log row and leaves every purchase row as it
\* was; and no call other than receive_purchase makes a purchase received.
NotReceivable(w) ==
    LET p == op[w].purchase_id
    IN \/ pre[w].purStatus[p] # "to_purchase"
       \/ pre[w].purLink[p] \notin Links
       \/ pre[w].purQty[p] <= 0

TasksUnchanged(w) ==
    /\ taskStatus = pre[w].taskStatus
    /\ taskDate = pre[w].taskDate
    /\ taskQty = pre[w].taskQty
    /\ taskEmp = pre[w].taskEmp

C13_ReceiveStocksIn ==
    \A w \in Workers :
        (pc[w] = "ret" /\ op[w].name = "receive_purchase" /\ res[w].success) =>
            LET p == op[w].purchase_id
                m == LinkMaterial(pre[w].purLink[p])
                q == pre[w].purQty[p]
            IN /\ m \in Materials
               /\ qty = [pre[w].qty EXCEPT ![m] = @ + q]
               /\ log = Append(pre[w].log,
                               [material_id |-> m, delta |-> q, change_type |-> "in",
                                reference |-> <<"purchase", p>>,
                                operator_id |-> op[w].operator_id])
               /\ purStatus = [pre[w].purStatus EXCEPT ![p] = "received"]
               /\ purDate = [pre[w].purDate EXCEPT ![p] =
                                IF op[w].date = "none" THEN "today" ELSE op[w].date]
               /\ purQty = pre[w].purQty
               /\ purLink = pre[w].purLink
               /\ purCost = pre[w].purCost
               /\ purTask = pre[w].purTask
               /\ TasksUnchanged(w)

\* A purchase made by create_purchase was received without a date given.
C13_Witness ==
    \E w \in Workers :
        /\ pc[w] = "ret"
        /\ op[w].name = "receive_purchase"
        /\ res[w].success
        /\ op[w].date = "none"
        /\ op[w].purchase_id = 2
        /\ Len(pre[w].log) > 0

\* C14: when the stock-in step of receive_purchase fails, the call returns a
\* failure that carries the stock-in error, the purchase is still to_purchase
\* with no receipt date, and quantities and log are as before the call; no
\* receive_purchase changes a purchase row without its stock-in committed.
StockInErrors ==
    { <<"material_missing">>, <<"negative_stock">>, <<"update_stock_level_failed", "store">>,
      <<"update_stock_level_failed", "update">> }

C14_StockInFailureKeepsPurchase ==
    \A w \in Workers :
        op[w].name = "receive_purchase" =>
            LET p == op[w].purchase_id
            IN /\ pc[w] \in {"usl_read", "usl_write", "usl_commit"} =>
                    (StockUnchanged(w) /\ PurchaseRowsUnchangedBut(w, pre[w].purStatus))
               /\ (pc[w] = "ret" /\ StockUnchanged(w)) =>
                    (~res[w].success /\ PurchaseRowsUnchangedBut(w, pre[w].purStatus))
               /\ (pc[w] = "ret" /\ res[w].message # <<>>
                   /\ Head(res[w].message) = "receive_stock_in_failed") =>
                    /\ ~res[w].success
                    /\ Tail(res[w].message) \in StockInErrors
                    /\ StockUnchanged(w)
                    /\ PurchaseRowsUnchangedBut(w, pre[w].purStatus)
                    /\ purStatus[p] = "to_purchase"
                    /\ purDate[p] = "none"

\* The stock-in of a purchase failed at a store round trip of update_stock_level.
C14_Witness ==
    \E w \in Workers :
        /\ pc[w] = "ret"
        /\ op[w].name = "receive_purchase"
        /\ res[w].message = <<"receive_stock_in_failed", "update_stock_level_failed", "store">>
        /\ tx[w] = NoTx

\* C15: receipt is one transaction: whenever no call is in progress, a purchase
\* with a committed stock-in log row (reference purchase:{P}) is received, even
\* after the store failed between the stock-in and the status change.
HasStockIn(p) == \E i \in 1..Len(log) : log[i].reference = <<"purchase", p>>

C15_ReceiptAtomic ==
    (\A w \in Workers : pc[w] \in {"idle", "ret"}) =>
        \A p \in PurchaseRows : HasStockIn(p) => purStatus[p] = "received"

\* C17: create_purchase succeeds only for a task that exists and is not
\* cancelled, a link that exists and a quantity > 0, and then exactly one
\* purchase row is new: status to_purchase, with the task, link and quantity
\* given; in every other case, and whenever it fails, no purchase row is new
\* or changed; with all three conditions met it fails only when the store does.
Creatable(w) ==
    /\ op[w].task_id \in TaskIds
    /\ pre[w].taskStatus[op[w].task_id] \notin {"absent", "cancelled"}
    /\ op[w].link_id \in Links
    /\ op[w].quantity > 0

CreatedRow(w, n) ==
    /\ pre[w].purStatus[n] = "absent"
    /\ purStatus = [pre[w].purStatus EXCEPT ![n] = "to_purchase"]
    /\ purQty = [pre[w].purQty EXCEPT ![n] = op[w].quantity]
    /\ purLink = [pre[w].purLink EXCEPT ![n] = op[w].link_id]
    /\ purTask = [pre[w].purTask EXCEPT ![n] = op[w].task_id]
    /\ purDate = pre[w].purDate
    /\ \A p \in PurchaseRows \ {n} : purCost[p] = pre[w].purCost[p]

C17_CreatePurchase ==
    \A w \in Workers :
        (pc[w] = "ret" /\ op[w].name = "create_purchase") =>
            /\ res[w].success =>
                  /\ Creatable(w)
                  /\ \E n \in PurchaseRows : CreatedRow(w, n)
            /\ ~res[w].success => PurchaseRowsUnchangedBut(w, pre[w].purStatus)
            /\ ~Creatable(w) => ~res[w].success
            /\ (Creatable(w) /\ ~res[w].success) =>
                  res[w].message = <<"create_purchase_failed", "store">>
            /\ TasksUnchanged(w)
            /\ StockUnchanged(w)

\* A purchase for a cancelled task was refused.
C17_Witness ==
    \E w \in Workers :
        /\ pc[w] = "ret"
        /\ op[w].name = "create_purchase"
        /\ op[w].task_id \in TaskIds
        /\ pre[w].taskStatus[op[w].task_id] = "cancelled"
        /\ op[w].link_id \in Links
        /\ op[w].quantity > 0
        /\ res[w].message = <<"task_cancelled">>

\* What the claims about submit_printing_task speak of.
SubmitRet(w) == pc[w] = "ret" /\ op[w].name = "submit_printing_task"

InMessage(x, message) == \E i \in DOMAIN message : message[i] = x

\* The call failed because the store did: a caught store error, or the
\* uncaught one of get_connection.
StoreFailed(r) == InMessage("store", r.message) \/ InMessage("raised", r.message)

NoNewRows(w) ==
    /\ taskStatus = pre[w].taskStatus
    /\ taskDate = pre[w].taskDate
    /\ taskQty = pre[w].taskQty
    /\ taskEmp = pre[w].taskEmp
    /\ purStatus = pre[w].purStatus
    /\ purDate = pre[w].purDate
    /\ purQty = pre[w].purQty
    /\ purLink = pre[w].purLink
    /\ purCost = pre[w].purCost
    /\ purTask = pre[w].purTask

\* No link of the material belongs to a supplier that is 合作中.
LacksSupplier(m) ==
    \A l \in Links : LinkMaterial(l) = m => supStatus[LinkSupplier(l)] # "active"

ValidData(d) ==
    /\ d.none = {}
    /\ d.quantity > 0
    /\ d.due_date \in {"today", "future"}
    /\ EmployeeStatus(d.employee_id) = "active"
    /\ BookExists(d.book_id)

NewPurchases(w) ==
    {p \in PurchaseRows : pre[w].purStatus[p] = "absent" /\ purStatus[p] # "absent"}

C19_SubmitCreates ==
    \A w \in Workers :
        SubmitRet(w) =>
            /\ (/\ ValidData(op[w].task_data)
                /\ \A m \in Materials : ~LacksSupplier(m)) =>
                  \/ res[w].success
                  \/ StoreFailed(res[w])
                  \/ InMessage("no_supplier", res[w].message)
            /\ res[w].success =>
                  LET t == res[w].data
                  IN /\ t \in TaskIds
                     /\ pre[w].taskStatus[t] = "absent"
                     /\ taskStatus = [pre[w].taskStatus EXCEPT ![t] = "pending"]
                     /\ taskQty = [pre[w].taskQty EXCEPT ![t] = op[w].task_data.quantity]
                     /\ taskEmp = [pre[w].taskEmp EXCEPT ![t] = op[w].task_data.employee_id]
                     /\ taskDate = pre[w].taskDate
                     /\ \A m \in Materials :
                           Cardinality({p \in NewPurchases(w) :
                                           LinkMaterial(purLink[p]) = m}) = 1
                     /\ Cardinality(NewPurchases(w)) = Cardinality(Materials)
                     /\ \A p \in NewPurchases(w) :
                           /\ purTask[p] = t
                           /\ purStatus[p] = "to_purchase"
                           /\ purLink[p] \in _select_optimal_supplier(LinkMaterial(purLink[p]))
                           /\ purQty[p] = Required(t)[LinkMaterial(purLink[p])]
                           /\ purDate[p] = "none"
                     /\ \A p \in PurchaseRows \ NewPurchases(w) :
                           /\ purStatus[p] = pre[w].purStatus[p]
                           /\ purQty[p] = pre[w].purQty[p]
                           /\ purLink[p] = pre[w].purLink[p]
                           /\ purCost[p] = pre[w].purCost[p]
                           /\ purTask[p] = pre[w].purTask[p]
                           /\ purDate[p] = pre[w].purDate[p]
            /\ StockUnchanged(w)

\* A valid submission succeeded: task 2 and its two purchases were created.
C19_Witness ==
    \E w \in Workers :
        /\ SubmitRet(w)
        /\ ValidData(op[w].task_data)
        /\ res[w].success
        /\ res[w].data = 2
        /\ Cardinality(NewPurchases(w)) = 2

\* C20: submit_printing_task opens its transaction only for data that
\* passes every validation, and for data with a required field missing, a
\* quantity <= 0, a due date that is no date or is before today, an employee
\* that does not exist or is not active, or a book that does not exist it
\* returns failure and no task or purchase row is new or changed.
C20_RejectBeforeMutation ==
    \A w \in Workers :
        op[w].name = "submit_printing_task" =>
            /\ tx[w].open => ValidData(op[w].task_data)
            /\ (pc[w] = "ret" /\ ~ValidData(op[w].task_data)) =>
                  /\ ~res[w].success
                  /\ ~InMessage("system_error", res[w].message)
                  /\ NoNewRows(w)
                  /\ StockUnchanged(w)

\* A submission with quantity 0 was rejected.
C20_Witness ==
    \E w \in Workers :
        /\ SubmitRet(w)
        /\ op[w].task_data.none = {}
        /\ op[w].task_data.quantity = 0
        /\ res[w].message = <<"quantity_not_positive">>
        /\ NoNewRows(w)

\* C16: a purchase row's total cost is set when the row is created, by
\* create_purchase and by submit_printing_task, to round(quantity x the unit
\* price its link has at that moment, 2) (price 5.00 x quantity 20 gives
\* exactly 100.00), and no later step changes the cost of a row that exists:
\* no update_status, receive_purchase or task operation, and no change of the
\* link's price.
\* The hundredths nearest to n thousandths.
NearestCents(n) == {c \in 0..(n \div 10 + 1) : 10 * c - n <= 5 /\ n - 10 * c <= 5}

CostAtCreation(p) == purCost[p] \in NearestCents(purQty[p] * linkPrice[purLink[p]])

CreatedWithCost ==
    \A w \in Workers :
        /\ (pc[w] = "ret" /\ op[w].name = "create_purchase" /\ res[w].success) =>
              /\ NewPurchases(w) = {res[w].data}
              /\ CostAtCreation(res[w].data)
        /\ (SubmitRet(w) /\ res[w].success) =>
              /\ NewPurchases(w) # {}
              /\ \A p \in NewPurchases(w) : CostAtCreation(p)
        /\ (pc[w] = "ret" /\ op[w].name \notin {"create_purchase", "submit_printing_task"}) =>
              purCost = pre[w].purCost

CostKept == \A p \in PurchaseRows : purStatus[p] # "absent" => purCost'[p] = purCost[p]

FiveTimesTwenty == NearestCents(200 * 500) = {10000} /\ Round2(200 * 500) = {10000}

C16_CostFixedAtCreation == [][CostKept /\ CreatedWithCost' /\ FiveTimesTwenty]_vars

\* A purchase that was created at the first price and received later keeps
\* its cost after its link's price has changed.
C16_Witness ==
    \E p \in PurchaseRows \ {1, 3, 4} :
        /\ purStatus[p] = "received"
        /\ linkPrice[purLink[p]] # InitPrice
        /\ purCost[p] \in NearestCents(purQty[p] * InitPrice)
        /\ ~CostAtCreation(p)

\* C21: for every set of candidate rows, the selection returns None when
\* the set is empty, and otherwise the link of a row of the least price among
\* the preferred rows when there is a preferred row, else of a row of the
\* least price among all rows; a preferred row wins over a cheaper row that
\* is not preferred: (S1, 10, not preferred), (S2, 8, preferred) gives S2.
Pool(rows) ==
    IF \E r \in rows : r.preferred THEN {r \in rows : r.preferred} ELSE rows

Cheapest(rows) == {r \in rows : \A q \in rows : r.price <= q.price}

ScenarioS2 ==
    SelectionsFrom({SupplierRow(1, 10, FALSE), SupplierRow(2, 8, TRUE)})
        = {SupplierRow(2, 8, TRUE)}

C21_SelectionRanking ==
    /\ ScenarioS2
    /\ \A w \in Workers :
          (pc[w] = "ret" /\ op[w].name = "select_from_rows") =>
              IF op[w].candidates = {}
              THEN res[w].data = 0 /\ ~res[w].success
              ELSE /\ res[w].success
                   /\ \E r \in Cheapest(Pool(op[w].candidates)) : r.link_id = res[w].data

\* A preferred link was returned although a cheaper link that is not
\* preferred was among the candidates.
C21_Witness ==
    \E w \in Workers :
        /\ pc[w] = "ret"
        /\ op[w].name = "select_from_rows"
        /\ \E r, q \in op[w].candidates :
              /\ r.preferred /\ ~q.preferred /\ q.price < r.price
              /\ res[w].data = r.link_id

\* C22: the link the selection returns belongs to the requested material
\* and to a supplier that is active; it returns None when the material has no
\* link to an active supplier, and otherwise only when its query failed; and
\* every purchase row a submission creates has a link of an active supplier.
SelectRet(w) == pc[w] = "ret" /\ op[w].name = "_select_optimal_supplier"

C22_SelectionEligible ==
    \A w \in Workers :
        /\ SelectRet(w) =>
              /\ res[w].data # 0 =>
                    /\ LinkMaterial(res[w].data) = op[w].material_id
                    /\ supStatus[LinkSupplier(res[w].data)] = "active"
              /\ LacksSupplier(op[w].material_id) => res[w].data = 0
              /\ res[w].data = 0 =>
                    \/ LacksSupplier(op[w].material_id)
                    \/ StoreFailed(res[w])
              /\ NoNewRows(w)
              /\ StockUnchanged(w)
        /\ (SubmitRet(w) /\ res[w].success) =>
              \A p \in NewPurchases(w) :
                 /\ purLink[p] \in Links
                 /\ supStatus[LinkSupplier(purLink[p])] = "active"

\* With supplier 2 terminated, the selection for paper returned the link of
\* supplier 1 although the link of supplier 2 is the preferred one.
C22_Witness ==
    \E w \in Workers :
        /\ SelectRet(w)
        /\ op[w].material_id = 1
        /\ supStatus[2] = "terminated"
        /\ res[w].data = 1

\* C23: with an unchanged store, every selection for the same candidate
\* rows returns the same link: the rows leave one outcome only.
C23_StableSelection ==
    \A w \in Workers :
        (pc[w] = "sfr_apply" /\ op[w].name = "select_from_rows") =>
            Cardinality(SelectionsFrom(op[w].candidates)) <= 1

\* C24: the requirements are the printing quantity times the material's
\* factor (0.5 kg of paper and 0.1 kg of ink per copy) whatever the store
\* holds, and the same task gets them at submission (the quantities of its
\* purchase rows), in the requirements view (the items' required quantities)
\* and at completion (the stock-out rows).
MaxQuantity == 3

Factor(m) == IF m = 1 THEN 5 ELSE 1

RequiredFor(quantity) == [m \in Materials |-> quantity * Factor(m)]

ViewRet(w) == pc[w] = "ret" /\ op[w].name = "get_task_requirements"

C24_RequirementsByQuantity ==
    /\ \A quantity \in 0..MaxQuantity :
          _calculate_material_requirements(quantity) = RequiredFor(quantity)
    /\ \A w \in Workers :
          /\ (SubmitRet(w) /\ res[w].success) =>
                /\ taskQty[res[w].data] = op[w].task_data.quantity
                /\ \A p \in NewPurchases(w) :
                      purQty[p] = RequiredFor(op[w].task_data.quantity)[LinkMaterial(purLink[p])]
          /\ (ViewRet(w) /\ res[w].success) =>
                /\ Len(res[w].items) = Cardinality(Materials)
                /\ \A i \in DOMAIN res[w].items :
                      /\ res[w].items[i].material_id = i
                      /\ res[w].items[i].required_qty = RequiredFor(taskQty[op[w].task_id])[i]
                      /\ res[w].items[i].current_stock = qty[i]
                /\ NoNewRows(w)
                /\ StockUnchanged(w)
          /\ (pc[w] = "ret" /\ Completes(w) /\ res[w].success) =>
                /\ Len(NewRows(w)) = Cardinality(Materials)
                /\ \A i \in DOMAIN NewRows(w) :
                      /\ NewRows(w)[i].material_id = i
                      /\ NewRows(w)[i].delta = 0 - RequiredFor(taskQty[op[w].task_id])[i]
                /\ \A m \in Materials :
                      qty[m] = pre[w].qty[m] - RequiredFor(taskQty[op[w].task_id])[m]

\* Task 2 was submitted with quantity 2 and its purchase rows ask for 1.0 kg
\* of paper; the requirements view of it, after the stock has changed, shows
\* 1.0 kg of paper and 0.2 kg of ink.
C24_Witness ==
    \E w \in Workers :
        /\ ViewRet(w)
        /\ res[w].success
        /\ op[w].task_id = 2
        /\ taskQty[2] = 2
        /\ qty # InitQty
        /\ \E p \in PurchaseRows : purTask[p] = 2 /\ purQty[p] = 10
        /\ res[w].items[1].required_qty = 10
        /\ res[w].items[2].required_qty = 2

\* C25: no call returns by raising: every call that has returned gave a
\* response with a success flag and a message, whatever the store did.
C25_NoRawException ==
    \A w \in Workers : pc[w] = "ret" => ~InMessage("raised", res[w].message)

\* C26: a transaction is open only inside a call of batch_update_stock,
\* update_stock_level or submit_printing_task (or of an operation that calls
\* one of them); the step that ends it is the step with which that call
\* returns, so it is ended once: on success everything it wrote is committed,
\* on failure nothing of it is; and a worker that has returned or is idle holds
\* no transaction and no connection.
OpensTransaction(name) ==
    name \in {"batch_update_stock", "update_stock_level", "submit_printing_task"}

NothingHeld ==
    \A w \in Workers :
        /\ pc[w] \in {"idle", "ret"} => tx[w] = NoTx
        /\ tx[w].open => OpensTransaction(op[w].name)

Written(t) ==
    /\ \A m \in DOMAIN t.writes : qty'[m] = t.writes[m]
    /\ \A m \in Materials \ DOMAIN t.writes : qty'[m] = qty[m]
    /\ log' = log \o t.rows
    /\ \A i \in DOMAIN t.tasks : taskStatus'[t.tasks[i].id] = t.tasks[i].status
    /\ \A i \in DOMAIN t.purchases : purStatus'[t.purchases[i].id] = t.purchases[i].status

EndedOnce ==
    \A w \in Workers :
        (tx[w].open /\ ~tx'[w].open) =>
            /\ pc'[w] = "ret"
            /\ tx'[w] = NoTx
            /\ IF res'[w].success THEN Written(tx[w]) ELSE UNCHANGED store

C26_TransactionsEnded == [][EndedOnce /\ NothingHeld']_vars

\* A submission failed inside its transaction: it has returned, the
\* transaction with the rows it had inserted is gone and nothing was created.
C26_Witness ==
    \E w \in Workers :
        /\ SubmitRet(w)
        /\ res[w].message = <<"system_error", "store">>
        /\ tx[w] = NoTx
        /\ NoNewRows(w)

\* C27: the stock log is append-only: every step of every stock, purchase
\* and task operation leaves the entries the log holds in place and unchanged
\* (material, delta, kind, reference and operator), and at most adds entries
\* behind them.
LogExtended ==
    /\ Len(log') >= Len(log)
    /\ \A i \in 1..Len(log) : log'[i] = log[i]

C27_LogAppendOnly == [][LogExtended]_vars

\* A call added entries behind the entries earlier calls had written.
C27_Witness ==
    \E w \in Workers :
        /\ pc[w] = "ret"
        /\ pre[w].log # <<>>
        /\ Len(log) > Len(pre[w].log)
        /\ SubSeq(log, 1, Len(pre[w].log)) = pre[w].log

\* C28: update_task_status(T, completed) on a task that needs more of some
\* material than the stock holds fails; the task's status and date, every
\* material's quantity (also of a material of which there was enough) and the
\* log are as before the call. It returns no shortage list: the failure is the
\* rejected stock batch's (or the store's).
ShortStatusCompletion(w) ==
    /\ pc[w] = "ret"
    /\ op[w].name = "update_task_status"
    /\ op[w].new_status = "completed"
    /\ pre[w].taskStatus[op[w].task_id] # "absent"
    /\ ShortMaterials(pre[w].qty, op[w].task_id) # <<>>

C28_ShortStatusCompletionRejected ==
    \A w \in Workers :
        ShortStatusCompletion(w) =>
            /\ ~res[w].success
            /\ res[w].shortages = <<>>
            /\ InMessage("batch_failed", res[w].message) \/ StoreFailed(res[w])
            /\ taskStatus = pre[w].taskStatus
            /\ taskDate = pre[w].taskDate
            /\ StockUnchanged(w)

\* There was enough paper and no ink: the batch was rejected at the ink and
\* the paper is as before.
C28_Witness ==
    \E w \in Workers :
        /\ ShortStatusCompletion(w)
        /\ ShortMaterials(pre[w].qty, op[w].task_id) = <<2>>
        /\ res[w].message = <<"batch_failed", "insufficient">>
        /\ StockUnchanged(w)

\* The transitions out of "ordered" and out of "cancelled": an ordered
\* purchase stays ordered or becomes cancelled, a cancelled one stays
\* cancelled, so "received" is never reached from "ordered".
OrderedStays ==
    \A p \in PurchaseRows :
        /\ purStatus[p] = "ordered" => purStatus'[p] \in {"ordered", "cancelled"}
        /\ purStatus[p] = "cancelled" => purStatus'[p] = "cancelled"

\* receive_purchase called on an ordered purchase returns a failure and
\* leaves the purchase, the stock and the stock log as they were.
ReceiveOrderedFails ==
    \A w \in Workers :
        (/\ pc[w] = "ret"
         /\ op[w].name = "receive_purchase"
         /\ pre[w].purStatus[op[w].purchase_id] = "ordered")
        => /\ ~res[w].success
           /\ purStatus = pre[w].purStatus
           /\ qty = pre[w].qty
           /\ log = pre[w].log

ManualRet(w) == pc[w] = "ret" /\ op[w].name = "complete_task_manual"

\* The stock-out rows of one completion of task t: one per material, in the
\* order of the requirements, for the quantity the task had at the call.
CompletionRows(w) ==
    LET t == op[w].task_id
        required == RequiredFor(pre[w].taskQty[t])
    IN [i \in 1..2 |-> [material_id |-> i, delta |-> 0 - required[i],
                        change_type |-> "out", reference |-> <<"task", t>>,
                        operator_id |-> op[w].operator_id]]

\* The call took the whole requirement off the stock it found and added its
\* rows after the rows it found, whatever those rows are.
DeductedAgain(w) ==
    /\ qty = [m \in Materials |->
                 pre[w].qty[m] - RequiredFor(pre[w].taskQty[op[w].task_id])[m]]
    /\ log = pre[w].log \o CompletionRows(w)

\* The batch committed and the call still failed: the status write failed.
StatusWriteFailed(w) == ManualRet(w) /\ ~res[w].success /\ log # pre[w].log

\* C30: task completion is two sequenced steps. A complete_task_manual that
\* fails leaves the task as it was; when it fails in the status write, after
\* the batch committed, the stock is deducted and the rows are written; and a
\* call that deducts takes the whole requirement again, whether or not the
\* log already holds stock-out rows of the task.
C30_CompletionTwoSteps ==
    \A w \in Workers :
        /\ (ManualRet(w) /\ ~res[w].success) =>
              /\ taskStatus = pre[w].taskStatus
              /\ taskDate = pre[w].taskDate
              /\ StockUnchanged(w) \/ DeductedAgain(w)
        /\ StatusWriteFailed(w) =>
              /\ DeductedAgain(w)
              /\ taskStatus[op[w].task_id] \in {"pending", "in_progress"}
              /\ res[w].message \in {<<"complete_failed", "store">>,
                                     <<"task_status_update_failed">>}
        /\ (ManualRet(w) /\ log # pre[w].log) => DeductedAgain(w)

\* A completion whose status write failed is retried: the log already held
\* the stock-out rows of the task, the task was not completed, and the retry
\* deducted the requirement a second time.
C30_Witness ==
    \E w \in Workers :
        /\ ManualRet(w)
        /\ pre[w].taskStatus[op[w].task_id] \in {"pending", "in_progress"}
        /\ Len(pre[w].log) >= 2
        /\ SubSeq(pre[w].log, Len(pre[w].log) - 1, Len(pre[w].log)) = CompletionRows(w)
        /\ DeductedAgain(w)
        /\ \E m \in Materials : qty[m] < pre[w].qty[m]

\* The stock-out rows of the log for material m with reference task:{t}.
TaskOutRows(rows, t, m) ==
    {i \in 1..Len(rows) : /\ rows[i].reference = <<"task", t>>
                          /\ rows[i].change_type = "out"
                          /\ rows[i].material_id = m}

\* Workers w and v run completion requests for task t that overlap.
ConcurrentCompletions(w, v, t) ==
    /\ w # v
    /\ pc[w] # "idle" /\ pc[v] # "idle"
    /\ Completes(w) /\ Completes(v)
    /\ op[w].task_id = t /\ op[v].task_id = t

\* The log as it was when the first of the two calls started (the log only
\* grows, so it is the shorter of the two).
EarlierLog(w, v) ==
    IF Len(pre[w].log) <= Len(pre[v].log) THEN pre[w].log ELSE pre[v].log

\* C31: while two completion requests for the same task run concurrently, at
\* most one stock-out row per required material with reference task:{T} is
\* committed by the two of them together.
C31_AtMostOnceDeduction ==
    \A w, v \in Workers, t \in TaskIds, m \in Materials :
        ConcurrentCompletions(w, v, t) =>
            Cardinality(TaskOutRows(log, t, m))
                <= Cardinality(TaskOutRows(EarlierLog(w, v), t, m)) + 1

\* The stock-in rows of the log with reference purchase:{p}.
PurchaseInRows(rows, p) ==
    {i \in 1..Len(rows) : /\ rows[i].reference = <<"purchase", p>>
                          /\ rows[i].change_type = "in"}

\* Workers w and v run receive_purchase for purchase p and overlap.
ConcurrentReceipts(w, v, p) ==
    /\ w # v
    /\ pc[w] # "idle" /\ pc[v] # "idle"
    /\ op[w].name = "receive_purchase" /\ op[v].name = "receive_purchase"
    /\ op[w].purchase_id = p /\ op[v].purchase_id = p

\* C32: while two receive_purchase calls for the same purchase run
\* concurrently, at most one stock-in row with reference purchase:{P} is
\* committed by the two of them together.
C32_AtMostOnceStockIn ==
    \A w, v \in Workers, p \in PurchaseRows :
        ConcurrentReceipts(w, v, p) =>
            Cardinality(PurchaseInRows(log, p))
                <= Cardinality(PurchaseInRows(EarlierLog(w, v), p)) + 1

\* C33: receipt and a status change of the same purchase exclude each other
\* under any interleaving: an update_status to cancelled or ordered that
\* started on a purchase never stocked in and returned success leaves the
\* purchase in that status with no stock-in row of reference purchase:{P},
\* and a receive_purchase that returned success leaves it received with its
\* stock-in row.
C33_ReceiptExcludesStatusChange ==
    /\ \A w \in Workers :
          (/\ pc[w] = "ret"
           /\ op[w].name = "update_status"
           /\ op[w].new_status \in {"cancelled", "ordered"}
           /\ res[w].success
           /\ PurchaseInRows(pre[w].log, op[w].purchase_id) = {})
          => /\ purStatus[op[w].purchase_id] = op[w].new_status
             /\ PurchaseInRows(log, op[w].purchase_id) = {}
    /\ \A w \in Workers :
          (/\ pc[w] = "ret"
           /\ op[w].name = "receive_purchase"
           /\ res[w].success)
          => /\ purStatus[op[w].purchase_id] = "received"
             /\ PurchaseInRows(log, op[w].purchase_id) # {}

\* Every item of the batch alone fits the stock the call found, but the items
\* of one material together do not.
OverdrawnTogether(q, changes) ==
    /\ \A k \in 1..Len(changes) :
          /\ changes[k].material_id \in Materials
          /\ q[changes[k].material_id] + changes[k].delta >= 0
    /\ GoesNegative(q, changes)

\* C34: within one batch_update_stock call the items of one material are
\* checked cumulatively: the quantity an item is checked against is the
\* quantity the call found plus the deltas of the earlier items of that
\* material; a batch whose items fit one by one but not together is rejected
\* as a whole with every quantity and the log unchanged; an empty batch
\* succeeds, opens no transaction and changes nothing.
C34_BatchCumulative ==
    \A w \in Workers :
        op[w].name = "batch_update_stock" =>
            /\ pc[w] \in {"batch_write"} =>
                  loc[w].current_qty =
                      RunningQty(pre[w].qty, op[w].changes, loc[w].idx - 1, loc[w].material_id)
            /\ (pc[w] = "ret" /\ OverdrawnTogether(pre[w].qty, op[w].changes)) =>
                  /\ ~res[w].success
                  /\ StockUnchanged(w)
            /\ (pc[w] = "ret" /\ op[w].changes = <<>>) =>
                  /\ res[w].success
                  /\ StockUnchanged(w)
                  /\ tx[w] = NoTx

\* Two stock-outs of one material, each within the stock, together beyond it:
\* the second was refused after the first had been written in the transaction.
C34_Witness ==
    \E w \in Workers :
        /\ pc[w] = "ret"
        /\ op[w].name = "batch_update_stock"
        /\ Len(op[w].changes) = 2
        /\ op[w].changes[1].material_id = op[w].changes[2].material_id
        /\ OverdrawnTogether(pre[w].qty, op[w].changes)
        /\ loc[w].idx = 2
        /\ res[w].message = <<"batch_failed", "insufficient">>
        /\ StockUnchanged(w)

\* update_task_status returned from a call with a target other than completed.
NonCompleting(w) ==
    /\ pc[w] = "ret"
    /\ op[w].name = "update_task_status"
    /\ op[w].new_status # "completed"

PurchasesKept(w) ==
    /\ purStatus = pre[w].purStatus
    /\ purDate = pre[w].purDate
    /\ purQty = pre[w].purQty
    /\ purLink = pre[w].purLink
    /\ purCost = pre[w].purCost
    /\ purTask = pre[w].purTask

\* receive_purchase returned from a call on a to_purchase order, with a link
\* and a quantity, of a task that was cancelled.
ReceivesForCancelledTask(w) ==
    LET p == op[w].purchase_id
    IN /\ pc[w] = "ret"
       /\ op[w].name = "receive_purchase"
       /\ pre[w].purStatus[p] = "to_purchase"
       /\ pre[w].purLink[p] \in Links
       /\ pre[w].purQty[p] > 0
       /\ pre[w].purTask[p] \in TaskIds
       /\ pre[w].taskStatus[pre[w].purTask[p]] = "cancelled"

\* C35: update_task_status with a target other than completed changes nothing
\* but the status of that task: quantities, the stock log and every purchase
\* order are as they were (a task that is absent stays absent); the orders of
\* a cancelled task stay to_purchase, and receive_purchase on one of them is
\* refused by no guard: it stocks the order in unless a store step fails.
C35_StatusChangeOnly ==
    \A w \in Workers :
        /\ NonCompleting(w) =>
              /\ StockUnchanged(w)
              /\ PurchasesKept(w)
              /\ taskDate = pre[w].taskDate
              /\ taskQty = pre[w].taskQty
              /\ taskEmp = pre[w].taskEmp
              /\ \A u \in TaskIds \ {op[w].task_id} : taskStatus[u] = pre[w].taskStatus[u]
              /\ IF res[w].success
                 THEN /\ op[w].new_status \in {"pending", "in_progress", "cancelled"}
                      /\ pre[w].taskStatus[op[w].task_id] # "absent"
                      /\ taskStatus[op[w].task_id] = op[w].new_status
                 ELSE taskStatus = pre[w].taskStatus
        /\ ReceivesForCancelledTask(w) =>
              LET p == op[w].purchase_id
                  m == LinkMaterial(pre[w].purLink[p])
              IN IF res[w].success
                 THEN /\ purStatus[p] = "received"
                      /\ qty[m] = pre[w].qty[m] + pre[w].purQty[p]
                      /\ log = Append(pre[w].log, [material_id |-> m,
                                                   delta |-> pre[w].purQty[p],
                                                   change_type |-> "in",
                                                   reference |-> <<"purchase", p>>,
                                                   operator_id |-> op[w].operator_id])
                 ELSE \/ InMessage("store", res[w].message)
                      \/ res[w].message = <<"purchase_status_update_failed">>

\* The task was cancelled by update_task_status; its order stayed to_purchase
\* and was then received into stock.
C35_Witness ==
    \E w \in Workers :
        /\ ReceivesForCancelledTask(w)
        /\ res[w].success
        /\ purStatus[op[w].purchase_id] = "received"
        /\ qty # pre[w].qty

====
